---------------------------- MODULE Spec2Model ----------------------------
(***************************************************************************)
(* A model of the bigboy DMG emulator core (package gameboy): the machine  *)
(* (bus table, CPU, PPU, cartridge, work RAM), its public operations and   *)
(* the instruction step.  Machine state is kept in one record per          *)
(* component, as in the Machine struct; sequential code is translated to   *)
(* operators from machine record to machine record and applied by the      *)
(* actions.  Arrays that start zeroed are kept sparse: a function holding  *)
(* only the nonzero cells.  Go uint values that wrap below zero (64 bit)   *)
(* are kept as negative integers and compared with ULess.                  *)
(***************************************************************************)
EXTENDS Integers, Sequences, FiniteSets, TLC

VARIABLES bus, cpu, ppu, cart, wram, phase, last, call

vars == <<bus, cpu, ppu, cart, wram, phase, last, call>>

-----------------------------------------------------------------------------
(* Bit and byte utilities *)

Pow2(n) == 2 ^ n

U8(x)  == x % 256
U16(x) == x % 65536

RECURSIVE And(_, _)
And(x, y) == IF x = 0 \/ y = 0 THEN 0
             ELSE (x % 2) * (y % 2) + 2 * And(x \div 2, y \div 2)

RECURSIVE Or(_, _)
Or(x, y) == IF x = 0 THEN y ELSE IF y = 0 THEN x
            ELSE (IF x % 2 = 1 \/ y % 2 = 1 THEN 1 ELSE 0) + 2 * Or(x \div 2, y \div 2)

RECURSIVE Xor(_, _)
Xor(x, y) == IF x = 0 THEN y ELSE IF y = 0 THEN x
             ELSE ((x + y) % 2) + 2 * Xor(x \div 2, y \div 2)

\* word & (1 << n) != 0
getBit(word, n) == (word \div Pow2(n)) % 2 = 1

\* *word |= 1 << n, or *word &= ^(1 << n), on a uint8
setBit(word, n, set) ==
    IF set THEN (IF getBit(word, n) THEN word ELSE word + Pow2(n))
           ELSE (IF getBit(word, n) THEN word - Pow2(n) ELSE word)

bit(b) == Pow2(b)

wide(hi, lo) == hi * 256 + lo

\* Sparse arrays: absent cells are zero.
Get(f, k) == IF k \in DOMAIN f THEN f[k] ELSE 0

Put(f, k, v) == IF v = 0 THEN [x \in DOMAIN f \ {k} |-> f[x]]
                ELSE [x \in DOMAIN f \cup {k} |-> IF x = k THEN v ELSE f[x]]

Empty == [x \in {} |-> 0]

\* a < b on Go uints, with wrapped (negative here) values above all others
ULess(a, b) == IF a >= 0 /\ b >= 0 THEN a < b
               ELSE IF a < 0 /\ b < 0 THEN a < b
               ELSE b < 0

-----------------------------------------------------------------------------
(* Interrupt bits, flags, vectors *)

intVBlank  == 1
intLCDStat == 2
intTimer   == 4
intSerial  == 8
intGamepad == 16

carryFlag     == 16
halfCarryFlag == 32
subtractFlag  == 64
zeroFlag      == 128
allFlags      == 240

interruptVectorMap == [f \in {intVBlank, intLCDStat, intTimer, intSerial, intGamepad} |->
    CASE f = intVBlank  -> 64
      [] f = intLCDStat -> 72
      [] f = intTimer   -> 80
      [] f = intSerial  -> 88
      [] f = intGamepad -> 96]


-----------------------------------------------------------------------------
(* Work RAM (mem.go) *)

\* WRAMRead indexing with 14 address bits: a faulty variant under which the
\* echo region stops aliasing.
WRAMReadWide(ram, addr) == Get(ram, addr % 16384)

WRAMRead(ram, addr) == Get(ram, addr % 8192)

WRAMWrite(ram, addr, value) == Put(ram, addr % 8192, value)

(* Cartridges (mem.go).  An image is [len, data]: a byte slice of length   *)
(* len whose nonzero bytes are in data.                                    *)

RomByte(rom, i) == Get(rom.data, i)

RamLen == 8192

ROMRead(c, addr) == IF addr >= c.rom.len THEN 255 ELSE RomByte(c.rom, addr)

NewMBC1Cartridge(rom) ==
    [kind |-> "MBC1", rom |-> rom, ram |-> Empty, enableram |-> FALSE,
     rombank |-> 0, rambank |-> 0]

NewROM(rom) ==
    [kind |-> "ROM", rom |-> rom, ram |-> Empty, enableram |-> FALSE,
     rombank |-> 0, rambank |-> 0]

\* The bank taken from the low five bits of the register alone: a faulty
\* variant.
MBC1BankMasked(c) == IF c.rombank % 32 = 0 THEN 1 ELSE c.rombank % 32

MBC1Bank(c) == IF c.rombank % 32 = 0 THEN c.rombank + 1 ELSE c.rombank

MBC1Read(c, addr) ==
    CASE addr < 16384 ->
            IF addr >= c.rom.len THEN 255 ELSE RomByte(c.rom, addr)
      [] addr >= 16384 /\ addr < 32768 ->
            LET romaddr == (addr % 16384) + MBC1Bank(c) * 16384
            IN  IF romaddr >= c.rom.len THEN 255 ELSE RomByte(c.rom, romaddr)
      [] addr >= 40960 /\ addr < 49152 ->
            LET ramaddr == (addr % 8192) + c.rambank * 8192
            IN  IF addr >= RamLen THEN 255 ELSE Get(c.ram, ramaddr)
      [] OTHER -> 255

MBC1Write(c, addr, value) ==
    CASE addr < 8192 -> [c EXCEPT !.enableram = (value % 16 = 10)]
      [] addr >= 8192 /\ addr < 16384 -> [c EXCEPT !.rombank = value]
      [] OTHER -> c

CartRead(c, addr) == IF c.kind = "MBC1" THEN MBC1Read(c, addr) ELSE ROMRead(c, addr)

CartWrite(c, addr, value) == IF c.kind = "MBC1" THEN MBC1Write(c, addr, value) ELSE c

(* The embedded boot image.  Only its length (256) is documented; the      *)
(* entry (LD SP,$FFFE) and exit (LD A,1; LDH ($50),A) are the ones the     *)
(* post-boot register preset of NewMachine stands in for, and a            *)
(* JP $00FC between them stands for the body of the boot program.          *)
BootLen == 256

dmgBootROM ==
    [len |-> BootLen,
     data |-> (0 :> 49 @@ 1 :> 254 @@ 2 :> 255 @@
               3 :> 195 @@ 4 :> 252 @@
               252 :> 62 @@ 253 :> 1 @@ 254 :> 224 @@ 255 :> 80)]

BootRead(addr) == IF addr >= dmgBootROM.len THEN 255 ELSE RomByte(dmgBootROM, addr)

-----------------------------------------------------------------------------
(* PPU registers and memories (ppu.go) *)

rgbColors == <<  <<255, 215, 232, 148>>, <<255, 174, 196, 64>>,
                 <<255, 82, 127, 57>>,   <<255, 32, 70, 49>>  >>

Object0 == [x |-> 0, y |-> 0, tile |-> 0, attr |-> 0, data |-> 0]

\* The zero value PPU{} that new(Machine) holds.
PPU0 ==
    [vram |-> Empty, oam |-> Empty,
     bgp |-> [i \in 0..3 |-> 0], obp |-> [p \in 0..1 |-> [i \in 0..3 |-> 0]],
     bgColor |-> 0, bgPalette |-> 0, fgColor |-> 0, fgPalette |-> 0, fgPriority |-> 0,
     clock |-> 0, lx |-> 0, screen |-> Empty,
     objects |-> [i \in 0..9 |-> Object0], numObjects |-> 0,
     lcdDisplayEnable |-> FALSE, windowTilemapEnable |-> FALSE,
     windowDisplayEnable |-> FALSE, bgTileDataSelect |-> FALSE,
     bgTileMapSelect |-> FALSE, objSize |-> FALSE, objDisplay |-> FALSE,
     bgDisplay |-> FALSE,
     lycInterrupt |-> FALSE, oamInterrupt |-> FALSE, vblankInterrupt |-> FALSE,
     hblankInterrupt |-> FALSE, modeHi |-> FALSE, modeLo |-> FALSE,
     scrollY |-> 0, scrollX |-> 0, ly |-> 0, lyComp |-> 0,
     winYPos |-> 0, winXPos |-> 0,
     backgroundData |-> 0, windowData |-> 0]

B2N(b) == IF b THEN 1 ELSE 0

lcdControlReg(p) ==
    128 * B2N(p.lcdDisplayEnable) + 64 * B2N(p.windowTilemapEnable)
    + 32 * B2N(p.windowDisplayEnable) + 16 * B2N(p.bgTileDataSelect)
    + 8 * B2N(p.bgTileMapSelect) + 4 * B2N(p.objSize)
    + 2 * B2N(p.objDisplay) + B2N(p.bgDisplay)

setLCDControlReg(p, value) ==
    [p EXCEPT !.lcdDisplayEnable = getBit(value, 7),
              !.windowTilemapEnable = getBit(value, 6),
              !.windowDisplayEnable = getBit(value, 5),
              !.bgTileDataSelect = getBit(value, 4),
              !.bgTileMapSelect = getBit(value, 3),
              !.objSize = getBit(value, 2),
              !.objDisplay = getBit(value, 1),
              !.bgDisplay = getBit(value, 0)]

lcdStatusReg(p) ==
    64 * B2N(p.lycInterrupt) + 32 * B2N(p.oamInterrupt)
    + 16 * B2N(p.vblankInterrupt) + 8 * B2N(p.hblankInterrupt)
    + 2 * B2N(p.modeHi) + B2N(p.modeLo)

setLCDStatusReg(p, v) ==
    [p EXCEPT !.lycInterrupt = getBit(v, 6),
              !.oamInterrupt = getBit(v, 5),
              !.vblankInterrupt = getBit(v, 4),
              !.hblankInterrupt = getBit(v, 3),
              !.modeHi = getBit(v, 1),
              !.modeLo = getBit(v, 0)]

PaletteReg(pal) ==
    (pal[0] % 4) + 4 * (pal[1] % 4) + 16 * (pal[2] % 4) + 64 * (pal[3] % 4)

PaletteOf(value) == [i \in 0..3 |-> (value \div Pow2(2 * i)) % 4]

PPURead(p, addr) ==
    CASE addr >= 32768 /\ addr < 40960 -> Get(p.vram, addr % 8192)
      [] addr >= 65024 /\ addr < 65184 -> Get(p.oam, addr - 65024)
      [] addr = 65344 -> lcdControlReg(p)
      [] addr = 65345 -> lcdStatusReg(p)
      [] addr = 65346 -> p.scrollY
      [] addr = 65347 -> p.scrollX
      [] addr = 65348 -> p.ly
      [] addr = 65349 -> p.lyComp
      [] addr = 65351 -> PaletteReg(p.bgp)
      [] addr = 65352 -> PaletteReg(p.obp[0])
      [] addr = 65353 -> PaletteReg(p.obp[1])
      [] addr = 65354 -> p.winYPos
      [] addr = 65355 -> p.winXPos
      [] OTHER -> 255

PPUWrite(p, addr, value) ==
    CASE addr >= 32768 /\ addr < 40960 -> [p EXCEPT !.vram = Put(@, addr % 8192, value)]
      [] addr >= 65024 /\ addr < 65184 -> [p EXCEPT !.oam = Put(@, addr - 65024, value)]
      [] addr = 65344 -> setLCDControlReg(p, value)
      [] addr = 65345 -> setLCDStatusReg(p, value)
      [] addr = 65346 -> [p EXCEPT !.scrollY = value]
      [] addr = 65347 -> [p EXCEPT !.scrollX = value]
      [] addr = 65348 -> [p EXCEPT !.ly = 0, !.lx = 0, !.clock = 0]
      [] addr = 65349 -> [p EXCEPT !.lyComp = value]
      [] addr = 65351 -> [p EXCEPT !.bgp = PaletteOf(value)]
      [] addr = 65352 -> [p EXCEPT !.obp[0] = PaletteOf(value)]
      [] addr = 65353 -> [p EXCEPT !.obp[1] = PaletteOf(value)]
      [] addr = 65354 -> [p EXCEPT !.winYPos = value]
      [] addr = 65355 -> [p EXCEPT !.winXPos = value]
      [] OTHER -> p

-----------------------------------------------------------------------------
(* CPU registers on the bus (cpu.go) *)

NoPad == [A |-> FALSE, B |-> FALSE, Select |-> FALSE, Start |-> FALSE,
          Right |-> FALSE, Left |-> FALSE, Up |-> FALSE, Down |-> FALSE]

\* The zero value CPU{} that new(Machine) holds.
CPU0 ==
    [a |-> 0, f |-> 0, b |-> 0, c |-> 0, d |-> 0, e |-> 0, h |-> 0, l |-> 0,
     sp |-> 0, pc |-> 0, hram |-> Empty,
     irq |-> 0, ie |-> 0, ime |-> FALSE,
     clock |-> 0, halt |-> FALSE, stop |-> FALSE,
     gamepad |-> NoPad, button |-> FALSE, dpad |-> FALSE,
     dma |-> FALSE, dmabank |-> 0, dmaindex |-> 0,
     timer |-> 0, tima |-> 0, tma |-> 0, div |-> 0]

\* The four key bits of 0xFF00 before the select bits are put in.
JoypadKeys(c) ==
    LET pad == c.gamepad
        button == setBit(setBit(setBit(setBit(15, 0, ~pad.A), 1, ~pad.B),
                                2, ~pad.Select), 3, ~pad.Start)
        dpad == setBit(setBit(setBit(setBit(15, 0, ~pad.Right), 1, ~pad.Left),
                              2, ~pad.Up), 3, ~pad.Down)
        v1 == IF c.button THEN And(15, button) ELSE 15
    IN  IF c.dpad THEN And(v1, dpad) ELSE v1

CPURead(c, addr) ==
    CASE addr = 65280 -> setBit(setBit(JoypadKeys(c), 4, ~c.dpad), 5, ~c.button)
      [] addr = 65281 \/ addr = 65282 -> 255
      [] addr = 65284 -> U8(c.div)
      [] addr = 65285 -> c.tima
      [] addr = 65286 -> c.tma
      [] addr = 65287 -> c.timer
      [] addr = 65295 -> c.irq
      [] addr >= 65408 /\ addr < 65535 -> Get(c.hram, addr % 128)
      [] addr = 65535 -> c.ie % 32
      [] OTHER -> 255

\* What CPU.Read does to the CPU besides returning a value.
CPUReadEffect(c, addr) ==
    IF addr = 65280 /\ JoypadKeys(c) # 15
    THEN [c EXCEPT !.ie = Or(@, intGamepad)]
    ELSE c

\* CPUWrite with the IE write left unmasked: a faulty variant that the IE
\* mask invariant has to reject.
CPUWriteUnmasked(c, addr, value) ==
    CASE addr = 65280 -> [c EXCEPT !.dpad = getBit(255 - value, 4),
                                   !.button = getBit(255 - value, 5)]
      [] addr = 65284 -> [c EXCEPT !.div = 0]
      [] addr = 65285 -> [c EXCEPT !.tima = value]
      [] addr = 65286 -> [c EXCEPT !.tma = value]
      [] addr = 65287 -> [c EXCEPT !.timer = value]
      [] addr = 65295 -> [c EXCEPT !.irq = value]
      [] addr = 65350 -> [c EXCEPT !.dma = TRUE, !.dmabank = value, !.dmaindex = 0]
      [] addr >= 65408 /\ addr < 65535 -> [c EXCEPT !.hram = Put(@, addr % 128, value)]
      [] addr = 65535 -> [c EXCEPT !.ie = value]
      [] OTHER -> c

CPUWrite(c, addr, value) ==
    CASE addr = 65280 -> [c EXCEPT !.dpad = getBit(255 - value, 4),
                                   !.button = getBit(255 - value, 5)]
      [] addr = 65284 -> [c EXCEPT !.div = 0]
      [] addr = 65285 -> [c EXCEPT !.tima = value]
      [] addr = 65286 -> [c EXCEPT !.tma = value]
      [] addr = 65287 -> [c EXCEPT !.timer = value]
      [] addr = 65295 -> [c EXCEPT !.irq = value]
      [] addr = 65350 -> [c EXCEPT !.dma = TRUE, !.dmabank = value, !.dmaindex = 0]
      [] addr >= 65408 /\ addr < 65535 -> [c EXCEPT !.hram = Put(@, addr % 128, value)]
      [] addr = 65535 -> [c EXCEPT !.ie = value % 32]
      [] OTHER -> c

-----------------------------------------------------------------------------
(* Bus and machine (bus.go, machine) *)

\* The machine record that the operators below transform.
GB == [bus |-> bus, cpu |-> cpu, ppu |-> ppu, cart |-> cart, wram |-> wram]

\* gb.bus.io[addr] as NewMachine fills it; bus.low is the device of the
\* first len(dmgBootROM) entries, the only ones that are ever reassigned.
io(b, addr) ==
    CASE addr < BootLen -> b.low
      [] addr >= BootLen /\ addr < 32768 -> "cart"
      [] addr >= 32768 /\ addr < 40960 -> "ppu"
      [] addr >= 40960 /\ addr < 49152 -> "cart"
      [] addr >= 49152 /\ addr < 65024 -> "wram"
      [] addr >= 65024 /\ addr < 65184 -> "ppu"
      [] addr \in {65280, 65281, 65282, 65284, 65285, 65286, 65287, 65295, 65350} -> "cpu"
      [] addr \in {65344, 65345, 65346, 65347, 65348, 65349,
                   65351, 65352, 65353, 65354, 65355} -> "ppu"
      [] addr >= 65408 /\ addr <= 65535 -> "cpu"
      [] OTHER -> "nil"

NewMachine(c, useBootrom) ==
    [bus  |-> [low |-> IF useBootrom THEN "boot" ELSE "cart"],
     cpu  |-> IF useBootrom THEN CPU0
              ELSE [CPU0 EXCEPT !.b = 0, !.c = 19, !.d = 0, !.e = 216, !.h = 1,
                                !.l = 77, !.a = 1, !.f = 176, !.sp = 65534,
                                !.pc = 256],
     ppu  |-> PPU0,
     cart |-> c,
     wram |-> Empty]

\* lockBootROM leaving the table as it is: a faulty variant under which the
\* boot ROM stays mapped.
lockBootROMNoop(gb) == gb

lockBootROM(gb) == [gb EXCEPT !.bus.low = "cart"]

UpdatePadOp(gb, pad) == [gb EXCEPT !.cpu.gamepad = pad]

\* Bus.Read answering 0 where no device is mapped: a faulty variant.
BusReadZero(gb, addr) ==
    LET dev == io(gb.bus, addr)
    IN  CASE dev = "nil"  -> 0
          [] dev = "cart" -> CartRead(gb.cart, addr)
          [] dev = "boot" -> BootRead(addr)
          [] dev = "ppu"  -> PPURead(gb.ppu, addr)
          [] dev = "wram" -> WRAMRead(gb.wram, addr)
          [] dev = "cpu"  -> CPURead(gb.cpu, addr)

BusRead(gb, addr) ==
    LET dev == io(gb.bus, addr)
    IN  CASE dev = "nil"  -> 255
          [] dev = "cart" -> CartRead(gb.cart, addr)
          [] dev = "boot" -> BootRead(addr)
          [] dev = "ppu"  -> PPURead(gb.ppu, addr)
          [] dev = "wram" -> WRAMRead(gb.wram, addr)
          [] dev = "cpu"  -> CPURead(gb.cpu, addr)

\* The machine after Bus.Read(addr): only the CPU's joypad read changes it.
BusReadEffect(gb, addr) ==
    IF io(gb.bus, addr) = "cpu"
    THEN [gb EXCEPT !.cpu = CPUReadEffect(@, addr)]
    ELSE gb

BusWrite(gb, addr, value) ==
    LET dev == io(gb.bus, addr)
    IN  CASE dev = "nil"  -> gb
          [] dev = "cart" -> [gb EXCEPT !.cart = CartWrite(@, addr, value)]
          [] dev = "boot" -> gb
          [] dev = "ppu"  -> [gb EXCEPT !.ppu = PPUWrite(@, addr, value)]
          [] dev = "wram" -> [gb EXCEPT !.wram = WRAMWrite(@, addr, value)]
          [] dev = "cpu"  -> [gb EXCEPT !.cpu = CPUWrite(@, addr, value)]

\* Machine.Read: the value, and the machine afterwards.
Read(gb, addr) == BusRead(gb, addr)

ReadEffect(gb, addr) == BusReadEffect(gb, addr)

\* Machine.Write
Write(gb, addr, value) ==
    BusWrite(IF addr = 65360 THEN lockBootROM(gb) ELSE gb, addr, value)

\* Invoke(gb, method, a, b) is the call gb.method(a, b) made while an
\* instruction or a machine cycle is running.  The CPU, the DMA and the
\* cycle call one another through it, so that the machine is one recursive
\* definition (defined with the instruction step below) and TLC keeps one
\* copy of each method rather than one for every path of calls.
RECURSIVE Invoke(_, _, _, _)

gbRead(gb, addr) == Invoke(gb, "Read", addr, 0)

gbReadEffect(gb, addr) == Invoke(gb, "ReadEffect", addr, 0)

gbWrite(gb, addr, value) == Invoke(gb, "Write", addr, value)

gbStepCycle(gb) == Invoke(gb, "stepCycle", 0, 0)

-----------------------------------------------------------------------------
(* PPU rendering and timing (ppu.go) *)

\* The bit-twiddling reversal of a 16-bit pattern: bit i goes to bit 15-i.
RECURSIVE Rev(_, _)
Rev(data, n) == IF n = 0 THEN 0
                ELSE (data % 2) * Pow2(n - 1) + Rev(data \div 2, n - 1)

Vram16(p, a) == Get(p.vram, a) + 256 * Get(p.vram, a + 1)

\* OAM entry n copied into the cache slot s: y, x, tile and attr.
LoadObject(p, n, s) ==
    [s EXCEPT !.y = p.ly - (Get(p.oam, n * 4) - 16),
              !.x = Get(p.oam, n * 4 + 1) - 8,
              !.tile = Get(p.oam, n * 4 + 2),
              !.attr = Get(p.oam, n * 4 + 3)]

\* The pattern of a visible object on line y of it, mirrored on request.
FlipX(attr, data) == IF getBit(attr, 5) THEN Rev(data, 16) ELSE data

FetchObject(p, s, y) ==
    [s EXCEPT !.y = y, !.data = FlipX(s.attr, Vram16(p, s.tile * 16 + y * 2))]

\* A visible object s: its line, flipped on request, and its pattern.
KeepObject(p, s, objHeight) ==
    FetchObject(p, s, IF getBit(s.attr, 6) THEN Xor(s.y, objHeight - 1) ELSE s.y)

\* The iterations n .. stop-1 of the OAM loop of initScanline; the result
\* holds the PPU and the next n, which is 40 once the loop has left by break.
RECURSIVE ScanOAM(_, _, _, _)

\* One iteration, s being the cache slot loaded from entry n.
ScanObject(p, objHeight, n, stop, s) ==
    IF s.y < 0 \/ s.y >= objHeight
    THEN ScanOAM([p EXCEPT !.objects[p.numObjects] = s], objHeight, n + 1, stop)
    ELSE IF p.numObjects + 1 = 10
    THEN [p |-> [p EXCEPT !.objects[p.numObjects] = KeepObject(p, s, objHeight),
                          !.numObjects = @ + 1],
          n |-> 40]
    ELSE ScanOAM([p EXCEPT !.objects[p.numObjects] = KeepObject(p, s, objHeight),
                           !.numObjects = @ + 1],
                 objHeight, n + 1, stop)

ScanOAM(p, objHeight, n, stop) ==
    IF n >= stop THEN [p |-> p, n |-> n]
    ELSE ScanObject(p, objHeight, n, stop, LoadObject(p, n, p.objects[p.numObjects]))

\* The loop is run ten entries at a time.  sort.Stable is handed the array
\* by value, and Swap has a value receiver, so the cache stays in the order
\* the loop left it.
initScanline(p) ==
    LET h == IF p.objSize THEN 16 ELSE 8
    IN  (CHOOSE r4 \in {ScanOAM(r3.p, h, r3.n, 40) : r3 \in
                        {ScanOAM(r2.p, h, r2.n, 30) : r2 \in
                         {ScanOAM(r1.p, h, r1.n, 20) : r1 \in
                          {ScanOAM([p EXCEPT !.numObjects = 0], h, 0, 10)}}}} : TRUE).p

readTileLine(p, sel, x, y) ==
    LET tileMapBase == IF sel THEN 7168 ELSE 6144
        tileMapAddr == tileMapBase + (((y \div 8) * 32 + (x \div 8)) % 1024)
        t           == Get(p.vram, tileMapAddr)
        tileDataAddr == IF p.bgTileDataSelect
                        THEN t * 16 + (y % 8) * 2
                        ELSE 4096 + (IF t >= 128 THEN t - 256 ELSE t) * 16 + (y % 8) * 2
    IN  Vram16(p, tileDataAddr)

\* The two-bit colour index of a 16-bit pattern at bit position 7-sb.
PatternIndex(data, sb) ==
    B2N(getBit(data, 7 - sb)) + 2 * B2N(getBit(data, 15 - sb))

PixelBackground(p) ==
    IF ~p.bgDisplay THEN p
    ELSE
      LET scrolly == (p.ly + p.scrollY) % 256
          scrollx == (p.scrollX + p.lx) % 256
          sb      == scrollx % 8
          data    == IF sb = 0 \/ p.lx = 0
                     THEN readTileLine(p, p.bgTileMapSelect, scrollx, scrolly)
                     ELSE p.backgroundData
          index   == PatternIndex(data, sb)
      IN  [p EXCEPT !.backgroundData = data, !.bgColor = p.bgp[index],
                    !.bgPalette = index]

PixelWindow(p) ==
    IF ~p.windowDisplayEnable THEN p
    ELSE
      LET scrolly == p.ly - p.winYPos
          scrollx == p.lx + 7 - p.winXPos
          sb      == scrollx % 8
      IN  IF scrolly >= 0 /\ scrolly < 144 /\ scrollx >= 0 /\ scrollx < 160
          THEN LET data  == IF sb = 0 \/ p.lx = 0
                            THEN readTileLine(p, p.windowTilemapEnable, scrollx, scrolly)
                            ELSE p.windowData
                   index == PatternIndex(data, sb)
               IN  [p EXCEPT !.windowData = data, !.bgColor = p.bgp[index],
                             !.bgPalette = index]
          ELSE p

\* The sprite loop of pixel, from cache entry n down to 0.
RECURSIVE PixelObjects(_, _)
PixelObjects(p, n) ==
    IF n < 0 THEN p
    ELSE
      LET s  == p.objects[n]
          sb == p.lx - s.x
      IN  IF sb < 0 \/ sb > 7 THEN PixelObjects(p, n - 1)
          ELSE
            LET index == PatternIndex(s.data, sb)
            IN  IF index = 0 THEN PixelObjects(p, n - 1)
                ELSE PixelObjects(
                       [p EXCEPT !.fgColor = p.obp[IF getBit(s.attr, 4) THEN 1 ELSE 0][index],
                                 !.fgPalette = index],
                       n - 1)

PixelColor(p) ==
    IF p.fgPalette = 0 THEN p.bgColor
    ELSE IF p.bgPalette = 0 THEN p.fgColor
    ELSE IF p.fgPriority # 0 THEN p.fgColor
    ELSE p.bgColor

\* The sprite part of pixel.
PixelSprites(p) ==
    IF p.objDisplay THEN PixelObjects(p, p.numObjects - 1) ELSE p

\* The last statement of pixel: the colour goes to the screen.
PixelStore(p) ==
    [p EXCEPT !.screen = [x \in DOMAIN @ \cup {p.ly * 160 + p.lx} |->
                            IF x = p.ly * 160 + p.lx
                            THEN rgbColors[PixelColor(p) + 1] ELSE @[x]]]

pixel(p) ==
    PixelStore(PixelSprites(PixelWindow(PixelBackground(
        [p EXCEPT !.bgColor = 0, !.bgPalette = 0, !.fgColor = 0, !.fgPalette = 0]))))

-----------------------------------------------------------------------------
(* The machine cycle: DMA, PPU tick, timers (cpu.go, ppu.go, machine) *)

\* Interrupt entering the vector at once when the request is enabled and
\* IME is set: a faulty variant that hands control over in mid-instruction.
InterruptAtOnce(gb, i) ==
    IF gb.cpu.ime /\ And(gb.cpu.ie, i) # 0
    THEN [gb EXCEPT !.cpu.halt = FALSE, !.cpu.ime = FALSE,
                    !.cpu.pc = interruptVectorMap[i]]
    ELSE [gb EXCEPT !.cpu.irq = Or(@, i)]

\* Interrupt sets an interrupt request.
Interrupt(gb, i) ==
    [gb EXCEPT !.cpu.halt = IF And(gb.cpu.ie, i) # 0 THEN FALSE ELSE @,
               !.cpu.irq = Or(@, i)]

\* SetMode with the two bits exchanged: a faulty variant.
SetModeSwapped(p, hi, lo) == [p EXCEPT !.modeHi = lo, !.modeLo = hi]

SetMode(p, hi, lo) == [p EXCEPT !.modeHi = hi, !.modeLo = lo]

\* The end-of-frame case of stepPixel leaving LY as it is: a faulty variant.
endFrameKeepLY(p) == [p EXCEPT !.clock = -1]

\* The last case of stepPixel: screen refresh on the next tick.
endFrame(p) == [p EXCEPT !.clock = -1, !.ly = 0]

\* The case hclock == 0 without the test of the LCD enable bit: a faulty
\* variant.
LineStartAlways(p) == initScanline(p)

\* The case hclock == 0 of a visible line, up to the interrupt.
LineStart(p) == IF p.lcdDisplayEnable THEN initScanline(p) ELSE p

\* The case 80 <= hclock < 240 of a visible line.
LinePixel(p) ==
    [(IF p.lcdDisplayEnable THEN pixel(p) ELSE p) EXCEPT !.lx = @ + 1]

\* The case ppu.clock == 65664 without the test of the LCD enable bit: a
\* faulty variant.
VBlankStartAlways(gb) == Interrupt(gb, intVBlank)

\* The case ppu.clock == 65664.
VBlankStart(gb) ==
    IF gb.ppu.lcdDisplayEnable THEN Interrupt(gb, intVBlank) ELSE gb

\* The switch of stepPixel, p being the PPU and hclock its clock % 456.
stepPixelCase(gb, p, hclock) ==
    CASE p.clock < 65664 ->
           (CASE hclock = 0 ->
                   Interrupt([gb EXCEPT !.ppu =
                                LineStart([SetMode(p, TRUE, FALSE) EXCEPT !.lx = 0])],
                             intLCDStat)
              [] hclock >= 80 /\ hclock < 240 ->
                   [gb EXCEPT !.ppu = LinePixel(SetMode(p, TRUE, TRUE))]
              [] hclock = 240 -> [gb EXCEPT !.ppu = SetMode(p, FALSE, FALSE)]
              [] hclock = 455 -> [gb EXCEPT !.ppu.ly = U8(@ + 1)]
              [] OTHER -> gb)
      [] p.clock = 65664 -> VBlankStart([gb EXCEPT !.ppu = SetMode(p, FALSE, TRUE)])
      [] p.clock > 65664 /\ p.clock < 70223 ->
           IF hclock = 455 THEN [gb EXCEPT !.ppu.ly = U8(@ + 1)] ELSE gb
      [] p.clock = 70223 -> [gb EXCEPT !.ppu = endFrame(p)]
      [] OTHER -> gb

stepPixel(gb) ==
    [stepPixelCase(gb, gb.ppu, gb.ppu.clock % 456) EXCEPT !.ppu.clock = @ + 1]

stepAudio(gb) == gb

\* The periods of TimerMask moved up by one row of the table: a faulty
\* variant.
TimerMaskShifted(timer) ==
    CASE timer % 8 = 4 -> 16
      [] timer % 8 = 5 -> 64
      [] timer % 8 = 6 -> 256
      [] timer % 8 = 7 -> 1024
      [] OTHER -> 0

\* The period of the TIMA tick (mask + 1), 0 when the timer is disabled.
TimerMask(timer) ==
    CASE timer % 8 = 5 -> 16
      [] timer % 8 = 6 -> 64
      [] timer % 8 = 7 -> 256
      [] timer % 8 = 4 -> 1024
      [] OTHER -> 0

\* checkTimers with the divider stepped after the test of the timer enable
\* bit: a faulty variant.
checkTimersDivGated(gb) ==
    LET m == TimerMask(gb.cpu.timer)
    IN  IF m = 0 THEN gb
        ELSE LET g1 == IF gb.cpu.clock % 256 = 0 THEN [gb EXCEPT !.cpu.div = @ + 1] ELSE gb
             IN  IF g1.cpu.clock % m = 0
                 THEN LET t == U8(g1.cpu.tima + 1)
                      IN  IF t = 0
                          THEN Interrupt([g1 EXCEPT !.cpu.tima = g1.cpu.tma], intTimer)
                          ELSE [g1 EXCEPT !.cpu.tima = t]
                 ELSE g1

checkTimers(gb) ==
    LET g1 == IF gb.cpu.clock % 256 = 0 THEN [gb EXCEPT !.cpu.div = @ + 1] ELSE gb
        m  == TimerMask(g1.cpu.timer)
    IN  IF m = 0 THEN g1
        ELSE IF g1.cpu.clock % m = 0
             THEN LET t == U8(g1.cpu.tima + 1)
                  IN  IF t = 0
                      THEN Interrupt([g1 EXCEPT !.cpu.tima = g1.cpu.tma], intTimer)
                      ELSE [g1 EXCEPT !.cpu.tima = t]
             ELSE g1

\* stepDMA without the test that ends the transfer: a faulty variant.
stepDMAUnending(gb) ==
    IF gb.cpu.dma
    THEN LET dstindex == U16(65024 + gb.cpu.dmaindex)
             srcindex == U16(gb.cpu.dmabank * 256 + gb.cpu.dmaindex)
             src      == gbRead(gb, srcindex)
             g1       == gbWrite(gbReadEffect(gb, srcindex), dstindex, src)
         IN  [g1 EXCEPT !.cpu.dmaindex = U16(g1.cpu.dmaindex + 1)]
    ELSE gb

stepDMA(gb) ==
    IF gb.cpu.dma
    THEN LET dstindex == U16(65024 + gb.cpu.dmaindex)
             srcindex == U16(gb.cpu.dmabank * 256 + gb.cpu.dmaindex)
             src      == gbRead(gb, srcindex)
             g1       == gbWrite(gbReadEffect(gb, srcindex), dstindex, src)
             idx      == U16(g1.cpu.dmaindex + 1)
         IN  [g1 EXCEPT !.cpu.dmaindex = idx,
                        !.cpu.dma = IF idx = 160 THEN FALSE ELSE @]
    ELSE gb

\* The loop body of stepCycle with the PPU tick ahead of the DMA transfer:
\* a faulty variant.
TickPixelFirst(gb) ==
    [checkTimers(stepAudio(stepDMA(stepPixel(gb)))) EXCEPT !.cpu.clock = @ + 1]

\* One pass of the loop body of stepCycle.
Tick(gb) ==
    [checkTimers(stepAudio(stepPixel(stepDMA(gb)))) EXCEPT !.cpu.clock = @ + 1]

\* n passes of the loop, each applied to the value of the one before.
RECURSIVE Ticks(_, _)
Ticks(gb, n) ==
    IF n = 0 THEN gb
    ELSE CHOOSE r \in {Ticks(g, n - 1) : g \in {Tick(gb)}} : TRUE

stepCycle(gb) == Ticks(gb, 4)

-----------------------------------------------------------------------------
(* CPU helpers (ops.go, cpu.go).  An operator that reads returns           *)
(* [v |-> value, gb |-> machine afterwards].                               *)

af(c) == wide(c.a, c.f)
bc(c) == wide(c.b, c.c)
de(c) == wide(c.d, c.e)
hl(c) == wide(c.h, c.l)
\* setAF storing the low byte whole: a faulty variant that lets the low
\* nibble of F be set.
setAFWhole(c, value) == [c EXCEPT !.a = value \div 256, !.f = value % 256]

setAF(c, value) == [c EXCEPT !.a = value \div 256, !.f = (value % 256) - (value % 16)]
setBC(c, value) == [c EXCEPT !.b = value \div 256, !.c = value % 256]
setDE(c, value) == [c EXCEPT !.d = value \div 256, !.e = value % 256]
setHL(c, value) == [c EXCEPT !.h = value \div 256, !.l = value % 256]

cf(f) == getBit(f, 4)
hf(f) == getBit(f, 5)
sf(f) == getBit(f, 6)
zf(f) == getBit(f, 7)

setCarryFlag(f, set)     == setBit(f, 4, set)
setHalfCarryFlag(f, set) == setBit(f, 5, set)
setSubtractFlag(f, set)  == setBit(f, 6, set)
setZeroFlag(f, val)      == setBit(f, 7, val = 0)
clearFlags(f, flags)     == And(f, 255 - flags)

fetchAt(gb, reg) ==
    [v |-> gbRead(gb, reg), gb |-> gbStepCycle(gbReadEffect(gb, reg))]

writeAt(gb, reg, value) == gbStepCycle(gbWrite(gb, reg, value))

cpuFetch(gb) ==
    [v  |-> gbRead(gb, gb.cpu.pc),
     gb |-> gbStepCycle([gbReadEffect(gb, gb.cpu.pc) EXCEPT !.cpu.pc = U16(@ + 1)])]

\* The byte as an int8
Signed(v) == IF v >= 128 THEN v - 256 ELSE v

cpuFetchSigned(gb) ==
    LET r == cpuFetch(gb) IN [v |-> Signed(r.v), gb |-> r.gb]

cpuFetch16(gb) ==
    LET lo == cpuFetch(gb)
        hi == cpuFetch(lo.gb)
    IN  [v |-> lo.v + 256 * hi.v, gb |-> hi.gb]

cpuPush(gb, dword) ==
    LET g1 == [gb EXCEPT !.cpu.sp = U16(@ - 1)]
        g2 == gbStepCycle(gbWrite(g1, g1.cpu.sp, dword \div 256))
        g3 == [g2 EXCEPT !.cpu.sp = U16(@ - 1)]
    IN  gbStepCycle(gbWrite(g3, g3.cpu.sp, dword % 256))

cpuPop(gb) ==
    LET lo == gbRead(gb, gb.cpu.sp)
        g1 == gbStepCycle([gbReadEffect(gb, gb.cpu.sp) EXCEPT !.cpu.sp = U16(@ + 1)])
        hi == gbRead(g1, g1.cpu.sp)
        g2 == gbStepCycle([gbReadEffect(g1, g1.cpu.sp) EXCEPT !.cpu.sp = U16(@ + 1)])
    IN  [v |-> lo + 256 * hi, gb |-> g2]

\* Register operand positions of the opcode tables: b c d e h l (hl) a
Reg(c, i) ==
    CASE i = 0 -> c.b [] i = 1 -> c.c [] i = 2 -> c.d [] i = 3 -> c.e
      [] i = 4 -> c.h [] i = 5 -> c.l [] i = 7 -> c.a

SetReg(c, i, v) ==
    CASE i = 0 -> [c EXCEPT !.b = v] [] i = 1 -> [c EXCEPT !.c = v]
      [] i = 2 -> [c EXCEPT !.d = v] [] i = 3 -> [c EXCEPT !.e = v]
      [] i = 4 -> [c EXCEPT !.h = v] [] i = 5 -> [c EXCEPT !.l = v]
      [] i = 7 -> [c EXCEPT !.a = v]

-----------------------------------------------------------------------------
(* ALU operations (ops.go): from the register value and F to              *)
(* [v |-> new register value, f |-> new F].                                *)

cpuOpIncrement(reg, f) ==
    LET v == U8(reg + 1)
    IN  [v |-> v,
         f |-> setHalfCarryFlag(setZeroFlag(
                 clearFlags(f, zeroFlag + subtractFlag + halfCarryFlag), v),
                 v % 16 = 0)]

cpuOpDecrement(reg, f) ==
    LET v == U8(reg - 1)
    IN  [v |-> v,
         f |-> setHalfCarryFlag(setZeroFlag(setSubtractFlag(
                 clearFlags(f, zeroFlag + halfCarryFlag), TRUE), v),
                 v % 16 = 15)]

cpuOpRotateLeft(reg, f) ==
    [v |-> U8(reg * 2 + B2N(cf(f))),
     f |-> setCarryFlag(clearFlags(f, allFlags), getBit(reg, 7))]

cpuOpRotateRight(reg, f) ==
    [v |-> U8((reg \div 2) + 128 * B2N(cf(f))),
     f |-> setCarryFlag(clearFlags(f, allFlags), getBit(reg, 0))]

cpuOpRotateLeftCarry(reg, f) ==
    [v |-> U8(Or(reg * 2, reg \div 128)),
     f |-> setCarryFlag(clearFlags(f, allFlags), getBit(reg, 7))]

cpuOpRotateRightCarry(reg, f) ==
    [v |-> U8(Or(reg \div 2, reg * 128)),
     f |-> setCarryFlag(clearFlags(f, allFlags), getBit(reg, 0))]

\* cpuOpDecimalAdjust looking at the flags alone, not at the digits of the
\* register: a faulty variant.
cpuOpDecimalAdjustFlagsOnly(reg, f) ==
    LET adj == (IF hf(f) THEN 6 ELSE 0) + (IF cf(f) THEN 96 ELSE 0)
        v   == IF sf(f) THEN U8(reg - adj) ELSE U8(reg + adj)
    IN  [v |-> v,
         f |-> setCarryFlag(setZeroFlag(clearFlags(f, halfCarryFlag), v), adj >= 96)]

cpuOpDecimalAdjust(reg, f) ==
    LET adj == IF sf(f)
               THEN (IF hf(f) THEN 6 ELSE 0) + (IF cf(f) THEN 96 ELSE 0)
               ELSE (IF hf(f) \/ reg % 16 > 9 THEN 6 ELSE 0)
                    + (IF cf(f) \/ reg > 153 THEN 96 ELSE 0)
        v   == IF sf(f) THEN U8(reg - adj) ELSE U8(reg + adj)
    IN  [v |-> v,
         f |-> setCarryFlag(setZeroFlag(clearFlags(f, halfCarryFlag), v), adj >= 96)]

cpuOpBitwiseComplement(reg, f) ==
    [v |-> Xor(reg, 255),
     f |-> setHalfCarryFlag(setSubtractFlag(f, TRUE), TRUE)]

cpuOpSetCarryFlag(f) ==
    setCarryFlag(clearFlags(f, subtractFlag + halfCarryFlag), TRUE)

cpuOpComplementCarryFlag(f) ==
    LET f1 == clearFlags(f, subtractFlag + halfCarryFlag)
    IN  setCarryFlag(f1, ~cf(f1))

\* cpuOpAdd with the half carry taken from the operands alone, without the
\* carry-in: a faulty variant.
cpuOpAddHalfNoCarry(reg, value, carry, f) ==
    LET c  == IF carry /\ cf(f) THEN 1 ELSE 0
        rn == reg + value + c
        rh == (reg % 16) + (value % 16)
        v  == U8(rn)
    IN  [v |-> v,
         f |-> setCarryFlag(setHalfCarryFlag(setZeroFlag(
                 clearFlags(f, subtractFlag), v), rh > 15), rn > 255)]

cpuOpAdd(reg, value, carry, f) ==
    LET c  == IF carry /\ cf(f) THEN 1 ELSE 0
        rn == reg + value + c
        rh == (reg % 16) + (value % 16) + c
        v  == U8(rn)
    IN  [v |-> v,
         f |-> setCarryFlag(setHalfCarryFlag(setZeroFlag(
                 clearFlags(f, subtractFlag), v), rh > 15), rn > 255)]

\* rn is a wrapped uint and rh a wrapped uint8: both exceed their bound
\* exactly when the difference is negative.
cpuOpSub(reg, value, carry, f) ==
    LET c  == IF carry /\ cf(f) THEN 1 ELSE 0
        rn == reg - value - c
        rh == U8((reg % 16) - (value % 16) - c)
        v  == U8(rn)
    IN  [v |-> v,
         f |-> setCarryFlag(setHalfCarryFlag(setSubtractFlag(
                 setZeroFlag(f, v), TRUE), rh > 15), rn < 0 \/ rn > 255)]

cpuOpAnd(reg, value, f) ==
    LET v == And(reg, value)
    IN  [v |-> v,
         f |-> setHalfCarryFlag(setZeroFlag(
                 clearFlags(f, subtractFlag + carryFlag), v), TRUE)]

cpuOpXor(reg, value, f) ==
    LET v == Xor(reg, value)
    IN  [v |-> v,
         f |-> setZeroFlag(clearFlags(f, subtractFlag + carryFlag + halfCarryFlag), v)]

cpuOpOr(reg, value, f) ==
    LET v == Or(reg, value)
    IN  [v |-> v,
         f |-> setZeroFlag(clearFlags(f, subtractFlag + carryFlag + halfCarryFlag), v)]

\* The result goes to a local: only the flags of the subtraction are kept.
cpuOpCompare(reg, value, f) ==
    [v |-> reg, f |-> cpuOpSub(reg, value, FALSE, f).f]

-----------------------------------------------------------------------------
(* CB-prefixed operations (ops.go) *)

cpuOpCBRotateLeftCarry(reg, f) ==
    LET v == U8(Or(reg * 2, reg \div 128))
    IN  [v |-> v,
         f |-> setZeroFlag(setCarryFlag(clearFlags(f, allFlags), getBit(reg, 7)), v)]

cpuOpCBRotateRightCarry(reg, f) ==
    LET v == U8(Or(reg \div 2, reg * 128))
    IN  [v |-> v,
         f |-> setZeroFlag(setCarryFlag(clearFlags(f, allFlags), getBit(reg, 0)), v)]

cpuOpCBRotateLeft(reg, f) ==
    LET v == U8(reg * 2 + B2N(cf(f)))
    IN  [v |-> v,
         f |-> setZeroFlag(setCarryFlag(clearFlags(f, allFlags), getBit(reg, 7)), v)]

cpuOpCBRotateRight(reg, f) ==
    LET v == U8((reg \div 2) + 128 * B2N(cf(f)))
    IN  [v |-> v,
         f |-> setZeroFlag(setCarryFlag(clearFlags(f, allFlags), getBit(reg, 0)), v)]

cpuOpCBArithmeticShiftLeft(reg, f) ==
    LET v == U8(reg * 2)
    IN  [v |-> v,
         f |-> setZeroFlag(setCarryFlag(clearFlags(f, allFlags), getBit(reg, 7)), v)]

cpuOpCBArithmeticShiftRight(reg, f) ==
    LET v == (reg \div 2) + (IF reg >= 128 THEN 128 ELSE 0)
    IN  [v |-> v,
         f |-> setZeroFlag(setCarryFlag(clearFlags(f, allFlags), getBit(reg, 0)), v)]

cpuOpCBSwap(reg, f) ==
    LET v == U8(reg * 16) + (reg \div 16)
    IN  [v |-> v, f |-> setZeroFlag(clearFlags(f, allFlags), v)]

cpuOpCBLogicalShiftRight(reg, f) ==
    LET v == reg \div 2
    IN  [v |-> v,
         f |-> setZeroFlag(setCarryFlag(clearFlags(f, allFlags), getBit(reg, 0)), v)]

cpuOpCBBit(b, reg, f) ==
    [v |-> reg,
     f |-> setHalfCarryFlag(setZeroFlag(
             clearFlags(f, zeroFlag + subtractFlag + halfCarryFlag),
             And(reg, bit(b))), TRUE)]

cpuOpCBBitReset(b, reg, f) == [v |-> setBit(reg, b, FALSE), f |-> f]

cpuOpCBBitSet(b, reg, f) == [v |-> setBit(reg, b, TRUE), f |-> f]

\* The second switch of cpuDispatchCB: the operation selected by op & 0xF8.
CBOperation(op, reg, f) ==
    LET b == (op \div 8) % 8
        k == op - (op % 8)
    IN  CASE k = 0  -> cpuOpCBRotateLeftCarry(reg, f)
          [] k = 8  -> cpuOpCBRotateRightCarry(reg, f)
          [] k = 16 -> cpuOpCBRotateLeft(reg, f)
          [] k = 24 -> cpuOpCBRotateRight(reg, f)
          [] k = 32 -> cpuOpCBArithmeticShiftLeft(reg, f)
          [] k = 40 -> cpuOpCBArithmeticShiftRight(reg, f)
          [] k = 48 -> cpuOpCBSwap(reg, f)
          [] k = 56 -> cpuOpCBLogicalShiftRight(reg, f)
          [] k >= 64 /\ k < 128  -> cpuOpCBBit(b, reg, f)
          [] k >= 128 /\ k < 192 -> cpuOpCBBitReset(b, reg, f)
          [] k >= 192 -> cpuOpCBBitSet(b, reg, f)

cpuDispatchCB(gb, op) ==
    IF op % 8 = 6
    THEN LET m == fetchAt(gb, hl(gb.cpu))
             r == CBOperation(op, m.v, m.gb.cpu.f)
             g == [m.gb EXCEPT !.cpu.f = r.f]
         IN  writeAt(g, hl(g.cpu), r.v)
    ELSE LET r == CBOperation(op, Reg(gb.cpu, op % 8), gb.cpu.f)
         IN  [gb EXCEPT !.cpu = SetReg([@ EXCEPT !.f = r.f], op % 8, r.v)]

-----------------------------------------------------------------------------
(* Jumps, calls, returns and control operations (ops.go) *)

cpuOpJump(gb, addr) == gbStepCycle([gb EXCEPT !.cpu.pc = addr])

cpuOpJumpFlag(gb, flag, addr) == IF flag THEN cpuOpJump(gb, addr) ELSE gb

cpuOpJumpRel(gb, value) == cpuOpJump(gb, U16(gb.cpu.pc + value))

cpuOpJumpRelFlag(gb, flag, value) ==
    IF flag THEN cpuOpJump(gb, U16(gb.cpu.pc + value)) ELSE gb

cpuOpCall(gb, addr) == cpuOpJump(cpuPush(gb, gb.cpu.pc), addr)

cpuOpCallFlag(gb, flag, addr) ==
    IF flag THEN cpuOpJump(cpuPush(gb, gb.cpu.pc), addr) ELSE gb

cpuOpReturn(gb) == LET r == cpuPop(gb) IN cpuOpJump(r.gb, r.v)

cpuOpReturnFlag(gb, flag) ==
    LET g1 == gbStepCycle(gb)
    IN  IF flag THEN (LET r == cpuPop(g1) IN cpuOpJump(r.gb, r.v)) ELSE g1

cpuOpReturnInterrupt(gb) == [cpuOpReturn(gb) EXCEPT !.cpu.ime = TRUE]

cpuOpRestart(gb, vector) == cpuOpCall(gb, vector)

cpuOpStop(gb) == [gb EXCEPT !.cpu.stop = TRUE]

\* cpuOpHalt halting whatever IE holds: a faulty variant.
cpuOpHaltAlways(gb) == [gb EXCEPT !.cpu.pc = U16(@ + 1), !.cpu.halt = TRUE]

cpuOpHalt(gb) ==
    LET g1 == [gb EXCEPT !.cpu.pc = U16(@ + 1)]
    IN  IF g1.cpu.ie % 32 = 0 THEN g1 ELSE [g1 EXCEPT !.cpu.halt = TRUE]

\* cpuOpPush without its internal cycle: a faulty variant.
cpuOpPushShort(gb, dword) == cpuPush(gb, dword)

cpuOpPush(gb, dword) == cpuPush(gbStepCycle(gb), dword)

cpuOpLoadAt(gb, reg, value) == writeAt(gb, reg, value)

cpuOpLoadAt16(gb, reg, value) ==
    cpuOpLoadAt(cpuOpLoadAt(gb, reg, value % 256), U16(reg + 1), value \div 256)

cpuOpIncrementAt(gb, reg) ==
    LET m == fetchAt(gb, reg)
        r == cpuOpIncrement(m.v, m.gb.cpu.f)
    IN  writeAt([m.gb EXCEPT !.cpu.f = r.f], reg, r.v)

cpuOpDecrementAt(gb, reg) ==
    LET m == fetchAt(gb, reg)
        r == cpuOpDecrement(m.v, m.gb.cpu.f)
    IN  writeAt([m.gb EXCEPT !.cpu.f = r.f], reg, r.v)

\* cpuOpIncrementRR and cpuOpDecrementRR: the pair moves by one, as r2
\* wraps into r1.
cpuOpIncrementRR(gb, rp) ==
    LET c == gb.cpu
    IN  gbStepCycle([gb EXCEPT !.cpu =
          CASE rp = 0 -> setBC(c, U16(bc(c) + 1))
            [] rp = 1 -> setDE(c, U16(de(c) + 1))
            [] rp = 2 -> setHL(c, U16(hl(c) + 1))])

cpuOpDecrementRR(gb, rp) ==
    LET c == gb.cpu
    IN  gbStepCycle([gb EXCEPT !.cpu =
          CASE rp = 0 -> setBC(c, U16(bc(c) - 1))
            [] rp = 1 -> setDE(c, U16(de(c) - 1))
            [] rp = 2 -> setHL(c, U16(hl(c) - 1))])

cpuOpIncrement16(gb) == gbStepCycle([gb EXCEPT !.cpu.sp = U16(@ + 1)])

cpuOpDecrement16(gb) == gbStepCycle([gb EXCEPT !.cpu.sp = U16(@ - 1)])

cpuOpAddRR(gb, value) ==
    LET g1 == gbStepCycle(gb)
        v  == hl(g1.cpu)
        rb == v + value
        rn == (v % 4096) + (value % 4096)
        f1 == setCarryFlag(setHalfCarryFlag(setSubtractFlag(g1.cpu.f, FALSE),
                                            rn > 4095), rb > 65535)
    IN  [g1 EXCEPT !.cpu = [setHL(@, U16(rb)) EXCEPT !.f = f1]]

cpuOpAddSP(gb, value) ==
    LET sp == gb.cpu.sp
        rn == sp + value
        rh == (sp % 4096) + value
        f1 == setCarryFlag(setHalfCarryFlag(clearFlags(gb.cpu.f, allFlags),
                                            rh > 4095), rn > 65535)
    IN  [gb EXCEPT !.cpu.sp = U16(rn), !.cpu.f = f1]

-----------------------------------------------------------------------------
(* Primary opcode dispatch (cpu.go).  The switch is written by opcode      *)
(* family; y and z are the operand positions (op>>3)&7 and op&7.           *)

\* The undefined opcodes with RST $38 added: a faulty variant.
UndefinedOpsAndRst == {211, 219, 221, 227, 228, 235, 236, 237, 244, 252, 253, 255}

UndefinedOps == {211, 219, 221, 227, 228, 235, 236, 237, 244, 252, 253}

\* Condition of the conditional jumps, calls and returns: nz z nc c
Cond(c, k) ==
    CASE k = 0 -> ~zf(c.f) [] k = 1 -> zf(c.f) [] k = 2 -> ~cf(c.f) [] k = 3 -> cf(c.f)

\* The register pair bc, de, hl (or sp) of opcodes 0x01..0x3B.
Pair(c, rp) ==
    CASE rp = 0 -> bc(c) [] rp = 1 -> de(c) [] rp = 2 -> hl(c) [] rp = 3 -> c.sp

SetPair(c, rp, v) ==
    CASE rp = 0 -> setBC(c, v) [] rp = 1 -> setDE(c, v) [] rp = 2 -> setHL(c, v)
      [] rp = 3 -> [c EXCEPT !.sp = v]

\* The operand at position z, read with fetchAt when it is (hl).
Operand(gb, z) ==
    IF z = 6 THEN fetchAt(gb, hl(gb.cpu)) ELSE [v |-> Reg(gb.cpu, z), gb |-> gb]

\* The accumulator operation y of opcodes 0x80..0xBF and their immediate forms.
Alu(y, a, value, f) ==
    CASE y = 0 -> cpuOpAdd(a, value, FALSE, f)
      [] y = 1 -> cpuOpAdd(a, value, TRUE, f)
      [] y = 2 -> cpuOpSub(a, value, FALSE, f)
      [] y = 3 -> cpuOpSub(a, value, TRUE, f)
      [] y = 4 -> cpuOpAnd(a, value, f)
      [] y = 5 -> cpuOpXor(a, value, f)
      [] y = 6 -> cpuOpOr(a, value, f)
      [] y = 7 -> cpuOpCompare(a, value, f)

AluOn(m, y) ==
    LET r == Alu(y, m.gb.cpu.a, m.v, m.gb.cpu.f)
    IN  [m.gb EXCEPT !.cpu.a = r.v, !.cpu.f = r.f]

\* A register operation that returns [v, f], applied to register i.
OnReg(gb, i, r) == [gb EXCEPT !.cpu = SetReg([@ EXCEPT !.f = r.f], i, r.v)]

\* Opcodes 0x00..0x3F
Dispatch00(gb, op) ==
    LET c  == gb.cpu
        y  == (op \div 8) % 8
        z  == op % 8
        rp == y \div 2
    IN  CASE op = 0  -> gb
          [] op = 8  -> LET m == cpuFetch16(gb) IN cpuOpLoadAt16(m.gb, m.v, m.gb.cpu.sp)
          [] op = 16 -> cpuOpStop(gb)
          [] op = 24 -> LET m == cpuFetchSigned(gb) IN cpuOpJumpRel(m.gb, m.v)
          [] op \in {32, 40, 48, 56} ->
               LET m == cpuFetchSigned(gb) IN cpuOpJumpRelFlag(m.gb, Cond(c, y - 4), m.v)
          [] op \in {1, 17, 33, 49} ->
               LET m == cpuFetch16(gb) IN [m.gb EXCEPT !.cpu = SetPair(@, rp, m.v)]
          [] op \in {9, 25, 41, 57} -> cpuOpAddRR(gb, Pair(c, rp))
          [] op \in {2, 18} -> cpuOpLoadAt(gb, Pair(c, rp), c.a)
          [] op = 34 -> [cpuOpLoadAt(gb, hl(c), c.a) EXCEPT !.cpu = setHL(@, U16(hl(@) + 1))]
          [] op = 50 -> [cpuOpLoadAt(gb, hl(c), c.a) EXCEPT !.cpu = setHL(@, U16(hl(@) - 1))]
          [] op \in {10, 26} ->
               LET m == fetchAt(gb, Pair(c, rp)) IN [m.gb EXCEPT !.cpu.a = m.v]
          [] op = 42 ->
               LET m == fetchAt(gb, hl(c))
               IN  [m.gb EXCEPT !.cpu = setHL([@ EXCEPT !.a = m.v], U16(hl(@) + 1))]
          [] op = 58 ->
               LET m == fetchAt(gb, hl(c))
               IN  [m.gb EXCEPT !.cpu = setHL([@ EXCEPT !.a = m.v], U16(hl(@) - 1))]
          [] op \in {3, 19, 35} -> cpuOpIncrementRR(gb, rp)
          [] op = 51 -> cpuOpIncrement16(gb)
          [] op \in {11, 27, 43} -> cpuOpDecrementRR(gb, rp)
          [] op = 59 -> cpuOpDecrement16(gb)
          [] op = 52 -> cpuOpIncrementAt(gb, hl(c))
          [] op = 53 -> cpuOpDecrementAt(gb, hl(c))
          [] z = 4 /\ op # 52 -> OnReg(gb, y, cpuOpIncrement(Reg(c, y), c.f))
          [] z = 5 /\ op # 53 -> OnReg(gb, y, cpuOpDecrement(Reg(c, y), c.f))
          [] op = 54 -> LET m == cpuFetch(gb) IN cpuOpLoadAt(m.gb, hl(c), m.v)
          [] z = 6 /\ op # 54 ->
               LET m == cpuFetch(gb) IN [m.gb EXCEPT !.cpu = SetReg(@, y, m.v)]
          [] op = 7  -> OnReg(gb, 7, cpuOpRotateLeftCarry(c.a, c.f))
          [] op = 15 -> OnReg(gb, 7, cpuOpRotateRightCarry(c.a, c.f))
          [] op = 23 -> OnReg(gb, 7, cpuOpRotateLeft(c.a, c.f))
          [] op = 31 -> OnReg(gb, 7, cpuOpRotateRight(c.a, c.f))
          [] op = 39 -> OnReg(gb, 7, cpuOpDecimalAdjust(c.a, c.f))
          [] op = 47 -> OnReg(gb, 7, cpuOpBitwiseComplement(c.a, c.f))
          [] op = 55 -> [gb EXCEPT !.cpu.f = cpuOpSetCarryFlag(@)]
          [] op = 63 -> [gb EXCEPT !.cpu.f = cpuOpComplementCarryFlag(@)]

\* Opcodes 0x40..0x7F: the loads, and HALT at 0x76
Dispatch40(gb, op) ==
    LET c == gb.cpu
        y == (op \div 8) % 8
        z == op % 8
    IN  IF op = 118 THEN cpuOpHalt(gb)
        ELSE IF y = 6 THEN cpuOpLoadAt(gb, hl(c), Reg(c, z))
        ELSE LET m == Operand(gb, z) IN [m.gb EXCEPT !.cpu = SetReg(@, y, m.v)]

\* Opcodes 0x80..0xBF: the accumulator operations
Dispatch80(gb, op) == AluOn(Operand(gb, op % 8), (op \div 8) % 8)

\* Opcodes 0xC0..0xFF
DispatchC0(gb, op) ==
    LET c == gb.cpu
        y == (op \div 8) % 8
    IN  CASE op \in {192, 200, 208, 216} -> cpuOpReturnFlag(gb, Cond(c, y))
          [] op = 193 -> LET m == cpuPop(gb) IN [m.gb EXCEPT !.cpu = setBC(@, m.v)]
          [] op = 209 -> LET m == cpuPop(gb) IN [m.gb EXCEPT !.cpu = setDE(@, m.v)]
          [] op = 225 -> LET m == cpuPop(gb) IN [m.gb EXCEPT !.cpu = setHL(@, m.v)]
          [] op = 241 -> LET m == cpuPop(gb) IN [m.gb EXCEPT !.cpu = setAF(@, m.v)]
          [] op \in {194, 202, 210, 218} ->
               LET m == cpuFetch16(gb) IN cpuOpJumpFlag(m.gb, Cond(c, y), m.v)
          [] op = 195 -> LET m == cpuFetch16(gb) IN cpuOpJump(m.gb, m.v)
          [] op \in {196, 204, 212, 220} ->
               LET m == cpuFetch16(gb) IN cpuOpCallFlag(m.gb, Cond(c, y), m.v)
          [] op = 197 -> cpuOpPush(gb, bc(c))
          [] op = 213 -> cpuOpPush(gb, de(c))
          [] op = 229 -> cpuOpPush(gb, hl(c))
          [] op = 245 -> cpuOpPush(gb, af(c))
          [] op \in {198, 206, 214, 222, 230, 238, 246, 254} -> AluOn(cpuFetch(gb), y)
          [] op \in {199, 207, 215, 223, 231, 239, 247, 255} -> cpuOpRestart(gb, y * 8)
          [] op = 201 -> cpuOpReturn(gb)
          [] op = 205 -> LET m == cpuFetch16(gb) IN cpuOpCall(m.gb, m.v)
          [] op = 217 -> cpuOpReturnInterrupt(gb)
          [] op = 224 -> LET m == cpuFetch(gb) IN cpuOpLoadAt(m.gb, 65280 + m.v, m.gb.cpu.a)
          [] op = 226 -> cpuOpLoadAt(gb, 65280 + c.c, c.a)
          [] op = 232 -> LET m == cpuFetchSigned(gb) IN cpuOpAddSP(m.gb, m.v)
          [] op = 233 -> cpuOpJump(gb, hl(c))
          [] op = 234 -> LET m == cpuFetch16(gb) IN cpuOpLoadAt(m.gb, m.v, m.gb.cpu.a)
          [] op = 240 ->
               LET m == cpuFetch(gb)
                   n == fetchAt(m.gb, 65280 + m.v)
               IN  [n.gb EXCEPT !.cpu.a = n.v]
          [] op = 242 -> LET n == fetchAt(gb, 65280 + c.c) IN [n.gb EXCEPT !.cpu.a = n.v]
          [] op = 243 -> [gb EXCEPT !.cpu.ime = FALSE]
          [] op = 248 ->
               LET m == cpuFetchSigned(gb)
               IN  [m.gb EXCEPT !.cpu = setHL(@, U16(@.sp + m.v))]
          [] op = 249 -> [gb EXCEPT !.cpu.sp = hl(c)]
          [] op = 250 ->
               LET m == cpuFetch16(gb)
                   n == fetchAt(m.gb, m.v)
               IN  [n.gb EXCEPT !.cpu.a = n.v]
          [] op = 251 -> [gb EXCEPT !.cpu.ime = TRUE]

\* cpuDispatch for the opcodes that do not panic (0xCB and UndefinedOps do).
cpuDispatch(gb, op) ==
    CASE op < 64 -> Dispatch00(gb, op)
      [] op >= 64 /\ op < 128 -> Dispatch40(gb, op)
      [] op >= 128 /\ op < 192 -> Dispatch80(gb, op)
      [] op >= 192 -> DispatchC0(gb, op)

-----------------------------------------------------------------------------
(* Interrupt dispatch and the instruction step (cpu.go) *)

\* cpuInterrupt leaving IME set: a faulty variant.
cpuInterruptKeepIME(gb, vector) ==
    [cpuPush(gb, gb.cpu.pc) EXCEPT !.cpu.pc = vector]

\* cpuInterrupt with a machine cycle after the push: a faulty variant.
cpuInterruptLong(gb, vector) ==
    [gbStepCycle(cpuPush([gb EXCEPT !.cpu.ime = FALSE], gb.cpu.pc)) EXCEPT !.cpu.pc = vector]

cpuInterrupt(gb, vector) ==
    [cpuPush([gb EXCEPT !.cpu.ime = FALSE], gb.cpu.pc) EXCEPT !.cpu.pc = vector]

\* The interrupt flags for which the test in the loop of checkInterrupts holds.
Pending(c) == {fl \in DOMAIN interruptVectorMap : And(And(c.irq, c.ie), fl) # 0}

\* The body of the loop of checkInterrupts for the flag it stops at.
Service(gb, fl) ==
    cpuInterrupt([gb EXCEPT !.cpu.halt = FALSE, !.cpu.irq = And(@, 255 - fl)],
                 interruptVectorMap[fl])

\* The flags the loop of checkInterrupts can stop at.  The loop ranges over
\* a Go map, whose iteration order is unspecified: it stops at whichever
\* pending flag the order brings up first.
Candidates(c) == Pending(c)

\* checkInterrupts without its IME test: a faulty variant.
InterruptsAlways(c) == TRUE

InterruptsEnabled(c) == c.ime

\* The fetch and dispatch of stepInstruction: the machine afterwards, the
\* opcode (after a 0xCB prefix, the one that follows it) and what became
\* of it; cpuOpUndefined panics.
FetchDispatch(gb) ==
    CHOOSE r \in
      {IF m.v = 203
       THEN CHOOSE q \in {[gb |-> cpuDispatchCB(n.gb, n.v), op |-> n.v,
                            kind |-> "execCB"] : n \in {cpuFetch(m.gb)}} : TRUE
       ELSE IF m.v \in UndefinedOps
       THEN [gb |-> m.gb, op |-> m.v, kind |-> "panic"]
       ELSE [gb |-> cpuDispatch(m.gb, m.v), op |-> m.v, kind |-> "exec"]
         : m \in {cpuFetch(gb)}} : TRUE

Invoke(gb, method, a, b) ==
    CHOOSE r \in
      {CASE method = "Read"            -> Read(g, a)
         [] method = "ReadEffect"      -> ReadEffect(g, a)
         [] method = "Write"           -> Write(g, a, b)
         [] method = "stepCycle"       -> stepCycle(g)
         [] method = "Tick"            -> Tick(g)
         [] method = "checkInterrupts" -> Service(g, a)
         [] method = "stepInstruction" -> FetchDispatch(g)
         : g \in {gb}} : TRUE

-----------------------------------------------------------------------------
(* Actions.  phase is the position in stepInstruction: at "boundary" no    *)
(* instruction is in progress and the host may call the machine; at        *)
(* "fetch" checkInterrupts has run and the opcode fetch is next; "panic"   *)
(* is the session ended by a Go panic.  last names the operation that led  *)
(* to the state.  call is the host's position in StepFrame: the loop it   *)
(* is in, the local startClock, the value last returned and the number of  *)
(* calls made.                                                             *)

Machine == <<bus, cpu, ppu, cart, wram>>

SetGB(g) ==
    \E r \in {g} :
        /\ bus' = r.bus
        /\ cpu' = r.cpu
        /\ ppu' = r.ppu
        /\ cart' = r.cart
        /\ wram' = r.wram

Op(name, addr, value) == [op |-> name, addr |-> addr, value |-> value]

NoCall == [fn |-> "none", loop |-> 0, startClock |-> 0, ret |-> 0, calls |-> 0]

InitMachine(c, useBootrom) ==
    LET g == NewMachine(c, useBootrom)
    IN  /\ bus = g.bus
        /\ cpu = g.cpu
        /\ ppu = g.ppu
        /\ cart = g.cart
        /\ wram = g.wram
        /\ phase = "boundary"
        /\ last = Op("init", 0, 0)
        /\ call = NoCall

\* Machine.Write called by the host
HostWrite(addr, value) ==
    /\ phase = "boundary"
    /\ SetGB(Write(GB, addr, value))
    /\ last' = Op("Write", addr, value)
    /\ UNCHANGED <<phase, call>>

\* Machine.Read called by the host
HostRead(addr) ==
    /\ phase = "boundary"
    /\ SetGB(ReadEffect(GB, addr))
    /\ last' = Op("Read", addr, Read(GB, addr))
    /\ UNCHANGED <<phase, call>>

UpdatePad(pad) ==
    /\ phase = "boundary"
    /\ SetGB(UpdatePadOp(GB, pad))
    /\ last' = Op("UpdatePad", 0, 0)
    /\ UNCHANGED <<phase, call>>

\* stepInstruction while halted
StepHalted(maxClock) ==
    /\ phase = "boundary"
    /\ cpu.halt
    /\ cpu.clock < maxClock
    /\ SetGB(Invoke(GB, "stepCycle", 0, 0))
    /\ last' = Op("halt", cpu.pc, 0)
    /\ UNCHANGED <<phase, call>>

\* stepInstruction, not halted: checkInterrupts
CheckInterrupts(maxClock) ==
    /\ phase = "boundary"
    /\ ~cpu.halt
    /\ cpu.clock < maxClock
    /\ phase' = "fetch"
    /\ UNCHANGED call
    /\ IF InterruptsEnabled(cpu) /\ Candidates(cpu) # {}
       THEN \E fl \in Candidates(cpu) :
              /\ SetGB(Invoke(GB, "checkInterrupts", fl, 0))
              /\ last' = Op("irq", interruptVectorMap[fl], fl)
       ELSE /\ UNCHANGED Machine
            /\ last' = Op("noirq", cpu.pc, 0)

\* stepInstruction, not halted: fetch and dispatch
Execute ==
    /\ phase = "fetch"
    /\ \E r \in {Invoke(GB, "stepInstruction", 0, 0)} :
           /\ SetGB(r.gb)
           /\ phase' = IF r.kind = "panic" THEN "panic" ELSE "boundary"
           /\ last' = Op(r.kind, cpu.pc, r.op)
    /\ UNCHANGED call

-----------------------------------------------------------------------------
(* Cartridge images *)

RomSize == 32768

Entry == 256

\* The image of RomSize bytes that holds prog at base and zeros elsewhere.
ImageAt(base, prog) ==
    [len  |-> RomSize,
     data |-> [a \in {base + i - 1 : i \in {j \in 1..Len(prog) : prog[j] # 0}} |->
                 prog[a - base + 1]]]

\* The union of two images (the second takes precedence).
Overlay(r1, r2) == [len |-> r1.len, data |-> r2.data @@ r1.data]

\* stepInstruction while halted, one Tick of its stepCycle at a time
TickHalted(maxClock) ==
    /\ \/ phase = "boundary" /\ cpu.halt
       \/ phase \in {"tick1", "tick2", "tick3"}
    /\ cpu.clock < maxClock
    /\ SetGB(Invoke(GB, "Tick", 0, 0))
    /\ phase' = CASE phase = "boundary" -> "tick1"
                  [] phase = "tick1" -> "tick2"
                  [] phase = "tick2" -> "tick3"
                  [] phase = "tick3" -> "boundary"
    /\ last' = Op("tick", cpu.pc, 0)
    /\ UNCHANGED call

-----------------------------------------------------------------------------
(* Interrupt handling: a program that sets the stack and enables           *)
(* interrupts, RETI at every vector, and a host that writes IE, IRQ, LY    *)
(* and the timer registers between steps.                                  *)

MaxClockI == 44

StackTops == {65534, 57344, 65297, 65296, 1}

Vectors == {interruptVectorMap[fl] : fl \in DOMAIN interruptVectorMap}

\* LD SP,top; EI; NOP; HALT; NOP...   and RETI at each vector
IrqImage(top) ==
    Overlay(ImageAt(Entry, <<49, top % 256, top \div 256, 251, 0, 118>>),
            [len |-> RomSize, data |-> [a \in Vectors |-> 217]])

IrqWrites ==
    {<<65535, 255>>, <<65535, 4>>, <<65295, 31>>, <<65295, 225>>,
     <<65348, 0>>, <<65287, 5>>, <<65285, 255>>}

InitIrq == \E top \in StackTops : InitMachine(NewMBC1Cartridge(IrqImage(top)), FALSE)

NextIrq ==
    \/ \E w \in IrqWrites : HostWrite(w[1], w[2])
    \/ StepHalted(MaxClockI)
    \/ CheckInterrupts(MaxClockI)
    \/ Execute

SpecIrq == InitIrq /\ [][NextIrq]_vars

\* The machine after the step under consideration.
GBn == [bus |-> bus', cpu |-> cpu', ppu |-> ppu', cart |-> cart', wram |-> wram']

\* The step is checkInterrupts servicing an interrupt.
Dispatch == phase = "boundary" /\ phase' = "fetch" /\ last'.op = "irq"

Lowest(S) == CHOOSE x \in S : \A y \in S : x <= y

\* C1: whenever an interrupt is serviced, the source chosen is the
\* lowest-numbered pending-and-enabled bit, so its vector is entered; with
\* IME=1, IE=0x1F, IRQ=0x1F that is vector 0x0040, leaving IRQ=0x1E.
C1_LowestPendingFirst ==
    [][Dispatch =>
         /\ last'.value = Lowest(Pending(cpu))
         /\ cpu'.pc = interruptVectorMap[Lowest(Pending(cpu))]
         /\ (cpu.ie = 31 /\ cpu.irq = 31 /\ cpu.sp = 65534 /\ ppu.clock % 456 \in 8..400
               /\ cpu.timer = 0
               => cpu'.pc = 64 /\ cpu'.irq = 30)]_vars

\* Work RAM (with its echo) and high RAM: the addresses where a byte
\* written through the bus is stored and read back.
InRam(addr) == (addr >= 49152 /\ addr < 65024) \/ (addr >= 65408 /\ addr < 65535)

\* No device requests an interrupt during the next 8 ticks: the timer is
\* off and the PPU does not start a scanline or the vertical blank.
Quiet == /\ TimerMask(cpu.timer) = 0
         /\ \A i \in 0..7 : ((ppu.clock + i) % 70224) % 456 # 0

\* C2 as stated: servicing an interrupt clears exactly the serviced bit of
\* IRQ and leaves the other bits, clears IME, lowers SP by 2 with the old
\* PC on the stack (high byte at SP+1, low byte at SP), and enters the
\* vector of the source.
C2_DispatchAsStated ==
    [][Dispatch =>
         \E fl \in Pending(cpu) :
            /\ cpu'.irq = And(cpu.irq, 255 - fl)
            /\ ~cpu'.ime
            /\ cpu'.sp = U16(cpu.sp - 2)
            /\ Read(GBn, U16(cpu'.sp + 1)) = cpu.pc \div 256
            /\ Read(GBn, cpu'.sp) = cpu.pc % 256
            /\ cpu'.pc = interruptVectorMap[fl]]_vars

\* C2, amended: servicing an interrupt clears IME, lowers SP by 2 (mod
\* 2^16) and enters the vector of a pending-and-enabled source; the old PC
\* is written through the bus, high byte at SP+1 and low byte at SP, and is
\* read back from there when both addresses are work RAM or high RAM; in
\* IRQ the serviced bit is cleared before the push, and unless the push
\* writes to 0xFF0F no other bit is cleared and only V-blank, LCD-STAT and
\* timer requests raised during the two push cycles are added; with the
\* stack in RAM and no such request, IRQ is the old IRQ without the
\* serviced bit.
C2_Dispatch ==
    [][Dispatch =>
         \E fl \in Pending(cpu) :
            LET base   == And(cpu.irq, 255 - fl)
                hiAddr == U16(cpu.sp - 1)
                loAddr == U16(cpu.sp - 2)
            IN  /\ ~cpu'.ime
                /\ cpu'.sp = loAddr
                /\ cpu'.pc = interruptVectorMap[fl]
                /\ (InRam(hiAddr) /\ InRam(loAddr)) =>
                      /\ Read(GBn, hiAddr) = cpu.pc \div 256
                      /\ Read(GBn, loAddr) = cpu.pc % 256
                /\ (hiAddr # 65295 /\ loAddr # 65295) =>
                      /\ And(cpu'.irq, base) = base
                      /\ And(cpu'.irq, 248) = And(base, 248)
                /\ (InRam(hiAddr) /\ InRam(loAddr) /\ Quiet) =>
                      cpu'.irq = base]_vars

\* An interrupt has just been serviced with the stack in work RAM: IME is
\* off, the PC is at the vector and the return address is on the stack.
C2_Witness ==
    /\ phase = "fetch" /\ last.op = "irq"
    /\ cpu.sp = 57342 /\ cpu.pc = last.addr /\ ~cpu.ime
    /\ wide(Read(GB, 57343), Read(GB, 57342)) >= Entry

\* C3: a step taken with IME false services no interrupt: checkInterrupts
\* leaves the machine as it is (no vector entered, no IRQ bit cleared,
\* nothing pushed), and a halted step only lets time pass.
C3_NoDispatchWithoutIME ==
    [][/\ (phase = "boundary" /\ phase' = "fetch" /\ ~cpu.ime) =>
              /\ UNCHANGED Machine
              /\ last'.op = "noirq"
       /\ (phase = "boundary" /\ last'.op = "halt" /\ ~cpu.ime) =>
              /\ cpu'.pc = cpu.pc /\ cpu'.sp = cpu.sp /\ ~cpu'.ime
              /\ And(cpu'.irq, cpu.irq) = cpu.irq]_vars

\* checkInterrupts has returned without servicing although an enabled
\* interrupt is pending, because IME is false.
C3_Witness ==
    /\ phase = "fetch" /\ last.op = "noirq"
    /\ ~cpu.ime /\ Pending(cpu) # {}

\* C4: in every reachable state IRQ & 0x1F = IRQ.
C4_IrqMasked == And(cpu.irq, 31) = cpu.irq

-----------------------------------------------------------------------------
(* Bus and registers: the machine starts in the boot ROM, whose program    *)
(* unmaps it, and the host reads, writes and presses keys between steps.   *)

MaxClockB == 52

\* A cartridge whose bytes under the boot ROM differ from the boot image.
BusImage == Overlay(ImageAt(0, <<90>>), ImageAt(BootLen - 1, <<165>>))

BusReads ==
    {0, 255, 65184, 65283, 65343, 65360, 65407, 49152, 57344, 65280}

BusWrites ==
    {65360, 65184, 65283, 65407, 49152, 57344, 65023, 65280, 65535}

BusValues == {0, 239}

Pads == {NoPad, [NoPad EXCEPT !.A = TRUE]}

InitBus == InitMachine(NewMBC1Cartridge(BusImage), TRUE)

NextBus ==
    \/ \E a \in BusReads : HostRead(a)
    \/ \E a \in BusWrites, v \in BusValues : HostWrite(a, v)
    \/ \E pad \in Pads : UpdatePad(pad)
    \/ CheckInterrupts(MaxClockB)
    \/ Execute

SpecBus == InitBus /\ [][NextBus]_vars

\* C5: in every reachable state IE & 0x1F = IE.
C5_IeMasked == And(cpu.ie, 31) = cpu.ie

\* A value with bits 7..5 set has just been written to 0xFFFF and IE holds
\* its low five bits.
C5_Witness == last = Op("Write", 65535, 239) /\ cpu.ie = 15

\* The step is a bus write to 0xFF50: by the host, or by LDH (n),A with
\* n = 0x50, the one store of the programs run here.
WritesFF50 ==
    \/ last'.op = "Write" /\ last'.addr = 65360
    \/ last'.op = "exec" /\ last'.value = 224 /\ Read(GB, U16(last'.addr + 1)) = 80

\* C8: with the boot ROM enabled, reads of 0x0000-0x00FF return the boot
\* image until a write to 0xFF50; a write of any value to 0xFF50 maps the
\* cartridge there, reads then return the cartridge's bytes, and nothing
\* maps the boot ROM back.
C8_BootLock ==
    /\ [](\A a \in 0..(BootLen - 1) :
            Read(GB, a) = IF bus.low = "boot" THEN RomByte(dmgBootROM, a)
                          ELSE CartRead(cart, a))
    /\ [][/\ (bus.low = "boot" /\ ~WritesFF50) => bus'.low = "boot"
          /\ WritesFF50 => bus'.low = "cart"
          /\ bus.low = "cart" => bus'.low = "cart"]_vars

\* The host has written to 0xFF50 and address 0 reads the cartridge's byte,
\* which is not the boot image's.
C8_Witness ==
    /\ last = Op("Write", 65360, 0)
    /\ Read(GB, 0) = 90 /\ RomByte(dmgBootROM, 0) # 90

\* The addresses that NewMachine leaves without a device.
Unmapped == {a \in 0..65535 : io([low |-> "cart"], a) = "nil"}

\* C9: at an address without a device Read returns 0xFF and Write changes
\* nothing in the machine, except that a write to 0xFF50 unmaps the boot ROM.
C9_UnmappedInert ==
    [][/\ (last'.op = "Read" /\ last'.addr \in Unmapped /\ phase' = "boundary") =>
              /\ last'.value = 255
              /\ UNCHANGED Machine
       /\ (last'.op = "Write" /\ last'.addr \in Unmapped /\ phase' = "boundary") =>
              /\ UNCHANGED <<cpu, ppu, cart, wram>>
              /\ bus' = IF last'.addr = 65360 THEN [bus EXCEPT !.low = "cart"] ELSE bus]_vars

\* The host has written to 0xFF7F, where no device is, and the address
\* still reads 0xFF.
C9_Witness == last = Op("Write", 65407, 239) /\ Read(GB, 65407) = 255

\* Offsets into work RAM at which the echo is compared: the ends of the
\* echoed range and every cell that holds a nonzero byte.
EchoOffsets == {0, 1, 7679} \cup {k \in DOMAIN wram : k < 7680}

\* C10: for every k < 0x1E00 a read of 0xC000+k and a read of 0xE000+k
\* return the same value.
C10_Echo == \A k \in EchoOffsets : Read(GB, 49152 + k) = Read(GB, 57344 + k)

\* The host has written through the echo and the byte is read at 0xC000.
C10_Witness == last = Op("Write", 57344, 239) /\ Read(GB, 49152) = 239

\* C16: a read of 0xFF00 that observes a pressed key of a selected group
\* (a key bit reads 0) sets bit 4 of IRQ, the joypad request.
C16_JoypadRequest ==
    [][/\ last'.op = "Read" /\ last'.addr = 65280
       /\ last'.value % 16 # 15
       => getBit(cpu'.irq, 4)]_vars

-----------------------------------------------------------------------------
(* Instructions: programs that load AF through the stack (LD BC,nn;        *)
(* PUSH BC; POP AF), B and HL, and then run one opcode.  IE stays 0, so    *)
(* HALT does not halt here.                                                *)

MaxClockC == 84

AFWords == {0, 15103, 65311, 32933, 3920}

BValues == {0, 1, 15, 198, 255}

\* LD BC,nn; PUSH BC; POP AF; LD B,n; LD HL,$C000; op x y
CpuProgram(nn, n, op, x, y) ==
    <<1, nn % 256, nn \div 256, 197, 241, 6, n, 33, 0, 192, op, x, y>>

\* A=0x45 (F=0x00 or 0xF0), B=0x38; ADD A,B; DAA
AddDaaPrograms == {CpuProgram(nn, 56, 128, 39, 0) : nn \in {17664, 17904}}

CpuPrograms ==
    {CpuProgram(nn, n, op, 136, 192) : nn \in AFWords, n \in BValues, op \in 0..255 \ {203}}
    \cup {CpuProgram(nn, n, 203, x, 0) : nn \in AFWords, n \in BValues, x \in 0..255}
    \cup AddDaaPrograms

InitCpu == \E prog \in CpuPrograms : InitMachine(NewMBC1Cartridge(ImageAt(Entry, prog)), FALSE)

NextCpu ==
    \/ CheckInterrupts(MaxClockC)
    \/ Execute

SpecCpu == InitCpu /\ [][NextCpu]_vars

\* C6: in every reachable state F & 0x0F = 0.
C6_FlagsLowNibble == cpu.f % 16 = 0

\* POP AF has just popped a word whose low byte has bits 3..0 set, and F
\* holds that byte's high nibble.
C6_Witness ==
    /\ last.op = "exec" /\ last.value = 241
    /\ Read(GB, U16(cpu.sp - 2)) % 16 # 0
    /\ cpu.f = Read(GB, U16(cpu.sp - 2)) - (Read(GB, U16(cpu.sp - 2)) % 16)
    /\ cpu.f # 0

-----------------------------------------------------------------------------
(* Encoding of the primary opcodes, as the instruction-set references      *)
(* give it: the operand bytes that follow the opcode and the opcodes that  *)
(* transfer control.                                                       *)

Imm16Ops == {1, 17, 33, 49, 8, 194, 202, 210, 218, 195, 196, 204, 212, 220, 205, 234, 250}

Imm8Ops ==
    {6, 14, 22, 30, 38, 46, 54, 62, 24, 32, 40, 48, 56,
     198, 206, 214, 222, 230, 238, 246, 254, 224, 240, 232, 248, 203}

OpLength(op) == IF op \in Imm16Ops THEN 3 ELSE IF op \in Imm8Ops THEN 2 ELSE 1

CondOps == {32, 40, 48, 56, 192, 200, 208, 216, 194, 202, 210, 218, 196, 204, 212, 220}

\* JR, JP, JP (HL), CALL, RET, RETI and the eight RST
AlwaysOps == {24, 195, 233, 205, 201, 217} \cup {199 + 8 * k : k \in 0..7}

\* The opcode transfers control when run with the flags f.
Taken(f, op) ==
    \/ op \in AlwaysOps
    \/ op \in CondOps /\ Cond([f |-> f], (op \div 8) % 4)

\* C11: an executed instruction that is not a taken branch, call, return
\* or RST leaves PC advanced by its encoded length: 1, 2 with an 8-bit
\* immediate or the CB prefix, 3 with a 16-bit immediate; HALT and STOP
\* included.
C11_PCAdvance ==
    [][/\ phase = "fetch"
       /\ last'.op \in {"exec", "execCB"}
       /\ last'.op = "exec" => ~Taken(cpu.f, last'.value)
       => cpu'.pc = U16(cpu.pc + (IF last'.op = "execCB" THEN 2 ELSE OpLength(last'.value)))]_vars

\* Machine cycles of a primary opcode in the instruction-set references;
\* taken tells whether a conditional jump, call or return was taken.
StdCycles(op, taken) ==
    CASE op \in {0, 16, 118, 243, 251, 233} -> 1               \* NOP STOP HALT DI EI JP (HL)
      [] op = 8 -> 5                                            \* LD (nn),SP
      [] op \in {52, 53, 54} -> 3                               \* INC (HL), DEC (HL), LD (HL),n
      [] op < 64 /\ op % 16 = 1 -> 3                            \* LD rr,nn
      [] op < 64 /\ op % 16 \in {2, 3, 9, 10, 11} -> 2          \* LD (rr),A  INC rr  ADD HL,rr  LD A,(rr)  DEC rr
      [] op = 24 -> 3                                           \* JR e
      [] op \in {32, 40, 48, 56} -> IF taken THEN 3 ELSE 2      \* JR cc,e
      [] op < 64 /\ op % 8 = 6 -> 2                             \* LD r,n
      [] op < 64 -> 1                                           \* INC r, DEC r, rotates of A, DAA, CPL, SCF, CCF
      [] op < 192 -> IF op % 8 = 6 \/ (op < 128 /\ (op \div 8) % 8 = 6) THEN 2 ELSE 1
      [] op \in {192, 200, 208, 216} -> IF taken THEN 5 ELSE 2  \* RET cc
      [] op \in {193, 209, 225, 241} -> 3                       \* POP
      [] op \in {194, 202, 210, 218} -> IF taken THEN 4 ELSE 3  \* JP cc,nn
      [] op = 195 -> 4                                          \* JP nn
      [] op \in {196, 204, 212, 220} -> IF taken THEN 6 ELSE 3  \* CALL cc,nn
      [] op \in {197, 213, 229, 245} -> 4                       \* PUSH
      [] op % 8 = 6 -> 2                                        \* ALU A,n
      [] op % 8 = 7 -> 4                                        \* RST
      [] op \in {201, 217} -> 4                                 \* RET, RETI
      [] op = 205 -> 6                                          \* CALL nn
      [] op \in {224, 240} -> 3                                 \* LDH (n),A  LDH A,(n)
      [] op \in {226, 242} -> 2                                 \* LD (C),A  LD A,(C)
      [] op = 232 -> 4                                          \* ADD SP,e
      [] op \in {234, 250} -> 4                                 \* LD (nn),A  LD A,(nn)
      [] op = 248 -> 3                                          \* LD HL,SP+e
      [] op = 249 -> 2                                          \* LD SP,HL

\* Machine cycles of a CB opcode, prefix included: 2 on a register, 4 on
\* (HL), 3 for BIT b,(HL).
StdCyclesCB(op) == IF op % 8 # 6 THEN 2 ELSE IF op \in 64..127 THEN 3 ELSE 4

\* C12: every executed opcode, primary or CB, takes the machine cycles the
\* references give for it; a machine cycle is 4 clock ticks.
C12_StandardCycles ==
    [][/\ phase = "fetch"
       /\ last'.op \in {"exec", "execCB"}
       => cpu'.clock - cpu.clock =
              4 * (IF last'.op = "execCB" THEN StdCyclesCB(last'.value)
                   ELSE StdCycles(last'.value, Taken(cpu.f, last'.value)))]_vars

\* The opcodes whose machine cycles the timing model lists.
ListedOps ==
    (64..127 \ {118}) \cup {op \in 128..191 : op % 8 # 6}
    \cup {0, 54, 243, 251, 205, 201}
    \cup {32, 40, 48, 56} \cup {192, 200, 208, 216}
    \cup {197, 213, 229, 245} \cup {193, 209, 225, 241}
    \cup {op \in 0..63 : op % 8 \in {4, 5} /\ op \notin {52, 53}}

\* LD r,r' 1; LD r,(HL) and LD (HL),r 2; LD (HL),n 3; JR cc,e 2 or 3 taken;
\* CALL 6; RET 4; RET cc taken 5; PUSH 4; POP 3; EI, DI, NOP and arithmetic
\* on registers 1.
ListedCycles(op, taken) ==
    CASE op \in 64..127 -> IF op % 8 = 6 \/ (op \div 8) % 8 = 6 THEN 2 ELSE 1
      [] op = 54 -> 3
      [] op \in {32, 40, 48, 56} -> IF taken THEN 3 ELSE 2
      [] op = 205 -> 6
      [] op = 201 -> 4
      [] op \in {192, 200, 208, 216} -> IF taken THEN 5 ELSE 2
      [] op \in {197, 213, 229, 245} -> 4
      [] op \in {193, 209, 225, 241} -> 3
      [] OTHER -> 1

\* Addresses in each region of the bus
AccessAddrs == {0, 16384, 32768, 40960, 49152, 57344, 65024, 65280, 65348, 65408, 65535}

\* C13: with no interrupt taken the listed instructions take the listed
\* machine cycles, and each memory access of the CPU (fetchAt, writeAt, an
\* operand fetch, each byte of a push or a pop) advances the clock by one
\* machine cycle, 4 ticks.
C13_ListedCycles ==
    /\ [][/\ phase = "fetch"
          /\ last'.op = "exec"
          /\ last'.value \in ListedOps
          => cpu'.clock - cpu.clock = 4 * ListedCycles(last'.value, Taken(cpu.f, last'.value))]_vars
    /\ [](phase = "fetch" =>
            /\ cpuFetch(GB).gb.cpu.clock = cpu.clock + 4
            /\ cpuPush(GB, cpu.pc).cpu.clock = cpu.clock + 8
            /\ cpuPop(GB).gb.cpu.clock = cpu.clock + 8
            /\ \A a \in AccessAddrs :
                  /\ fetchAt(GB, a).gb.cpu.clock = cpu.clock + 4
                  /\ writeAt(GB, a, 165).cpu.clock = cpu.clock + 4)

\* CALL nn at 0x010A has run from clock 60: six machine cycles later
\* control is at 0xC088 and the return address 0x010D is on the stack.
C13_Witness ==
    /\ last = Op("exec", 266, 205)
    /\ cpu.clock = 60 + 24
    /\ cpu.pc = 49288
    /\ Read(GB, cpu.sp) = 13 /\ Read(GB, U16(cpu.sp + 1)) = 1

\* The primary opcodes that the instruction set leaves undefined.
UndefinedClaimed == {211, 219, 221, 227, 228, 235, 236, 237, 244, 252, 253}

\* C19: the step that fetches one of the eleven undefined primary opcodes
\* ends the session in a panic; a step that fetches any other primary
\* opcode, or the CB prefix with any second byte, ends at an instruction
\* boundary.
C19_UndefinedOpcodes ==
    [][phase = "fetch" =>
          IF Read(GB, cpu.pc) \in UndefinedClaimed
          THEN phase' = "panic" /\ last'.op = "panic"
          ELSE phase' = "boundary" /\ last'.op = (IF Read(GB, cpu.pc) = 203 THEN "execCB" ELSE "exec")]_vars

\* 0xFD has been fetched at 0x010A and the session has ended.
C19_Witness ==
    /\ phase = "panic"
    /\ last = Op("panic", 266, 253)
    /\ cpu.pc = 267

\* C20: once the stop flag is set it stays set, and no step fetches or
\* executes an instruction any more.
C20_StopHolds ==
    [][cpu.stop => cpu'.stop /\ ~(phase = "fetch" /\ phase' # "fetch")]_vars

-----------------------------------------------------------------------------
(* 8-bit addition *)

\* ADD A,r / ADC A,r (0x80-0x8F) and ADD A,n / ADC A,n (0xC6, 0xCE).
AddOps == 128..143 \cup {198, 206}

\* The operand of the ALU opcode op about to be fetched at cpu.pc: a
\* register, the byte at HL, or the byte after the opcode.
AluOperand(op) ==
    IF op >= 192 THEN Read(GB, U16(cpu.pc + 1))
    ELSE IF op % 8 = 6 THEN Read(GB, hl(cpu))
    ELSE Reg(cpu, op % 8)

\* The carry-in of the addition opcode op: the C flag for ADC, 0 for ADD.
CarryIn(op) == IF op \in 136..143 \cup {206} /\ getBit(cpu.f, 4) THEN 1 ELSE 0

\* C21: for every A, operand v and carry-in c (the old C flag for ADC, 0
\* for ADD) the result of an 8-bit ADD/ADC is (A+v+c) mod 256, Z is set iff
\* the result is 0, N is cleared, H is set iff (A & 0xF)+(v & 0xF)+c > 0xF
\* and C is set iff A+v+c > 0xFF; A=0x3A, B=0xC6 gives A=0x00, F=0xB0.
C21_AddAdc ==
    [][(phase = "fetch" /\ last'.op = "exec" /\ last'.value \in AddOps) =>
         LET v == AluOperand(last'.value)
             c == CarryIn(last'.value)
         IN  /\ cpu'.a = (cpu.a + v + c) % 256
             /\ cpu'.f = 128 * B2N((cpu.a + v + c) % 256 = 0)
                         + 32 * B2N((cpu.a % 16) + (v % 16) + c > 15)
                         + 16 * B2N(cpu.a + v + c > 255)
             /\ (last'.value = 128 /\ cpu.a = 58 /\ cpu.b = 198) =>
                    cpu'.a = 0 /\ cpu'.f = 176]_vars

\* ADD A,B has run in the program that loaded A=0x3A and B=0xC6: A is 0 and
\* F is 0xB0.
C21_Witness ==
    /\ last = Op("exec", 266, 128)
    /\ Read(GB, 258) = 58 /\ cpu.b = 198
    /\ cpu.a = 0 /\ cpu.f = 176

-----------------------------------------------------------------------------
(* Decimal adjustment after an addition *)

\* The program run is one that loads A=0x45 and B=0x38 and has ADD A,B and
\* DAA at 0x010A.
AddDaaLoaded ==
    /\ Read(GB, 258) = 69 /\ Read(GB, 262) = 56
    /\ Read(GB, 266) = 128 /\ Read(GB, 267) = 39

\* C22 as stated: from A=0x45, B=0x38, ADD A,B yields A=0x7D with F=0x20,
\* and DAA then yields A=0x83 with F=0x00.
C22_AddDaaAsStated ==
    /\ (AddDaaLoaded /\ last = Op("exec", 266, 128)) => (cpu.a = 125 /\ cpu.f = 32)
    /\ (AddDaaLoaded /\ last = Op("exec", 267, 39)) => (cpu.a = 131 /\ cpu.f = 0)

\* C22, amended: from A=0x45, B=0x38, ADD A,B yields A=0x7D with F=0x00 (the
\* low nibbles add to 0xD, so H is clear), and DAA then yields A=0x83 with
\* F=0x00.
C22_AddDaa ==
    /\ (AddDaaLoaded /\ last = Op("exec", 266, 128)) => (cpu.a = 125 /\ cpu.f = 0)
    /\ (AddDaaLoaded /\ last = Op("exec", 267, 39)) => (cpu.a = 131 /\ cpu.f = 0)

\* DAA has run after ADD A,B in the program that loaded A=0x45 with every
\* flag set and B=0x38: A is 0x83 and F is 0.
C22_Witness ==
    /\ AddDaaLoaded /\ Read(GB, 257) = 240
    /\ last = Op("exec", 267, 39)
    /\ cpu.a = 131 /\ cpu.f = 0 /\ cpu.b = 56

\* The signed offset that follows the opcode at the program counter.
Offset8 == Read(GB, U16(cpu.pc + 1))

\* C38: ADD SP,e8 and LD HL,SP+e8 clear Z and N, set H iff the sum of the
\* low nibbles of SP and of the offset byte exceeds 0xF and C iff the sum
\* of the low byte of SP and the offset byte exceeds 0xFF, and store
\* (SP + e) mod 65536, e being the offset as a signed number, in SP,
\* respectively in HL.
C38_AddSPFlags ==
    [][last'.op = "exec" /\ last'.value \in {232, 248} =>
         LET e == IF Offset8 >= 128 THEN Offset8 - 256 ELSE Offset8
         IN  /\ cpu'.f = (IF (cpu.sp % 16) + (Offset8 % 16) > 15 THEN halfCarryFlag ELSE 0)
                         + (IF (cpu.sp % 256) + Offset8 > 255 THEN carryFlag ELSE 0)
             /\ last'.value = 232 => cpu'.sp = (cpu.sp + e) % 65536 /\ hl(cpu') = hl(cpu)
             /\ last'.value = 248 => hl(cpu') = (cpu.sp + e) % 65536 /\ cpu'.sp = cpu.sp]_vars

-----------------------------------------------------------------------------
(* PPU timing: the program enables the serial interrupt alone, which      *)
(* nothing requests, and halts (LD A,8; LDH ($FF),A; HALT), so every step  *)
(* from then on is a stepCycle, taken one Tick at a time; the host writes  *)
(* LY, LCDC and STAT at the instants of its schedule.                      *)

MaxClockP == 70728

\* <<CPU clock of the write, address, value>>
PpuWrites ==
    {<<500, 65348, 0>>, <<65800, 65348, 7>>, <<65800, 65344, 145>>, <<65800, 65345, 120>>}

InitPpu == InitMachine(NewMBC1Cartridge(ImageAt(Entry, <<62, 8, 224, 255, 118>>)), FALSE)

NextPpu ==
    \/ \E w \in PpuWrites : cpu.clock = w[1] /\ HostWrite(w[2], w[3])
    \/ CheckInterrupts(MaxClockP)
    \/ Execute
    \/ TickHalted(MaxClockP)

SpecPpu == InitPpu /\ [][NextPpu]_vars

\* C7: after every PPU tick LY is in [0,153] and the PPU clock in
\* [0,70223], whatever is written to 0xFF44, LCDC and STAT; the tick at
\* clock 70223 sets the clock and LY to 0, and every other tick adds one to
\* the clock, so a frame without writes to 0xFF44 is 70224 ticks.
C7_Counters ==
    /\ [](ppu.ly \in 0..153 /\ ppu.clock \in 0..70223)
    /\ [][last'.op = "tick" /\ cpu'.clock = cpu.clock + 1 =>
            IF ppu.clock = 70223
            THEN ppu'.clock = 0 /\ ppu'.ly = 0
            ELSE ppu'.clock = ppu.clock + 1]_vars

\* The first frame has ended without a write to 0xFF44: after 70224 ticks
\* the PPU clock and LY are back at 0.
C7_Witness ==
    /\ last.op = "tick" /\ cpu.clock = 70224
    /\ ppu.clock = 0 /\ ppu.ly = 0

-----------------------------------------------------------------------------
(* Frames: the host loop calls StepFrame again and again, on programs that *)
(* loop over instructions of different lengths or wait in HALT for the     *)
(* timer and V-blank interrupts.                                           *)

MaxCalls == 3

MaxClockF == 210000

\* ppu.clock at the start of line 144
VBlankClock == 65664

\* StepFrame taking 0 for startClock: a faulty variant.
StepFrameCallZero(maxCalls) ==
    /\ phase = "boundary"
    /\ call.fn = "none"
    /\ call.calls < maxCalls
    /\ call' = [call EXCEPT !.fn = "StepFrame", !.loop = 1, !.startClock = 0, !.calls = @ + 1]
    /\ last' = Op("StepFrame", 0, 0)
    /\ UNCHANGED <<Machine, phase>>

\* gb.StepFrame() is called: startClock := gb.cpu.clock
StepFrameCall(maxCalls) ==
    /\ phase = "boundary"
    /\ call.fn = "none"
    /\ call.calls < maxCalls
    /\ call' = [call EXCEPT !.fn = "StepFrame", !.loop = 1,
                            !.startClock = cpu.clock, !.calls = @ + 1]
    /\ last' = Op("StepFrame", 0, 0)
    /\ UNCHANGED <<Machine, phase>>

\* The loop for gb.ppu.clock >= 65664 ends.
StepFrameSecondLoop ==
    /\ phase = "boundary"
    /\ call.fn = "StepFrame" /\ call.loop = 1
    /\ ppu.clock < VBlankClock
    /\ call' = [call EXCEPT !.loop = 2]
    /\ last' = Op("loop", 0, 0)
    /\ UNCHANGED <<Machine, phase>>

\* gb.Step() of one of the loops of StepFrame is running or is next.
InStepFrame ==
    /\ call.fn = "StepFrame"
    /\ phase = "boundary" =>
          IF call.loop = 1 THEN ppu.clock >= VBlankClock ELSE ppu.clock < VBlankClock

\* The loop for gb.ppu.clock < 65664 ends: return gb.cpu.clock - startClock
StepFrameReturn ==
    /\ phase = "boundary"
    /\ call.fn = "StepFrame" /\ call.loop = 2
    /\ ppu.clock >= VBlankClock
    /\ call' = [call EXCEPT !.fn = "none", !.loop = 0, !.ret = cpu.clock - call.startClock]
    /\ last' = Op("return", call.calls, cpu.clock - call.startClock)
    /\ UNCHANGED <<Machine, phase>>

\* LD A,5; LDH ($07),A; LD A,tma; LDH ($06),A; LD A,5; LDH ($FF),A; EI and
\* then body: the timer runs at 262144 Hz and reloads tma, IE is V-blank
\* and timer.  RETI at 0x0040; CALL $0060 and RET at 0x0050; RETI at 0x0060.
TimerImage(tma, body) ==
    Overlay(ImageAt(Entry, <<62, 5, 224, 7, 62, tma, 224, 6, 62, 5, 224, 255, 251>> \o body),
            Overlay(ImageAt(64, <<217>>),
                    Overlay(ImageAt(80, <<205, 96, 0, 201>>), ImageAt(96, <<217>>))))

FrameImages ==
    {ImageAt(Entry, <<24, 254>>),                                    \* JR -2
     Overlay(ImageAt(Entry, <<205, 16, 1, 24, 251>>), ImageAt(272, <<201>>)),  \* CALL $0110; JR -5 / RET
     ImageAt(Entry, <<8, 0, 192, 0, 24, 250>>),                      \* LD ($C000),SP; NOP; JR -6
     TimerImage(0, <<118, 0, 24, 252>>),                             \* HALT; NOP; JR -4
     TimerImage(131, <<0, 0, 24, 252>>)}                             \* NOP; NOP; JR -4

InitFrame == \E image \in FrameImages : InitMachine(NewMBC1Cartridge(image), FALSE)

NextFrame ==
    \/ StepFrameCall(MaxCalls)
    \/ StepFrameSecondLoop
    \/ InStepFrame /\ StepHalted(MaxClockF)
    \/ InStepFrame /\ CheckInterrupts(MaxClockF)
    \/ InStepFrame /\ Execute
    \/ StepFrameReturn

SpecFrame == InitFrame /\ [][NextFrame]_vars

\* C14 as stated: every call of StepFrame, the first after construction
\* included, returns a value in [70200, 70250].
C14_FrameLengthAsStated == last.op = "return" => last.value \in 70200..70250

\* C14: the first call of StepFrame after construction returns a value in
\* [65664, 65692], and every later call a value in [70196, 70252]: 70224
\* ticks more or less the ticks by which the last step of a call overruns
\* PPU clock 65664, at most 28.
C14_FrameLength ==
    last.op = "return" =>
        /\ last.value = call.ret
        /\ ppu.clock \in VBlankClock..(VBlankClock + 28)
        /\ IF last.addr = 1 THEN last.value \in 65664..65692
                            ELSE last.value \in 70196..70252

\* The third call returns 70252: the second ended at PPU clock 65664 and
\* the last step of the third serviced the timer interrupt and ran the
\* CALL at its vector, from 65660 to 65692.
C14_Witness ==
    /\ last = Op("return", 3, 70252)
    /\ ppu.clock = 65692
    /\ cpu.pc = 96

-----------------------------------------------------------------------------
(* Termination of StepFrame.  The tick counts grow without bound, so     *)
(* their origin is moved back every MaxClockL ticks; the code reads        *)
(* cpu.clock only modulo 256 and modulo the timer periods, all of which    *)
(* divide TimerPeriod, and in the difference with startClock, and it reads *)
(* div only modulo 256.  Elapsed ticks saturate at MaxElapsed.             *)

MaxCallsL == 1

MaxClockL == 66560

MaxElapsed == 71680

\* The longest timer period, mask 0x3ff
TimerPeriod == 1024

Rebase ==
    /\ phase = "boundary"
    /\ cpu.clock >= MaxClockL
    /\ cpu' = [cpu EXCEPT !.clock = @ - TimerPeriod, !.div = @ % 256]
    /\ call' = [call EXCEPT !.startClock =
                   IF cpu.clock - @ >= MaxElapsed
                   THEN cpu.clock - TimerPeriod - MaxElapsed
                   ELSE @ - TimerPeriod]
    /\ last' = Op("rebase", 0, 0)
    /\ UNCHANGED <<bus, ppu, cart, wram, phase>>

LiveImages ==
    {ImageAt(Entry, <<24, 254>>),                                              \* JR -2
     Overlay(ImageAt(Entry, <<205, 16, 1, 24, 251>>), ImageAt(272, <<201>>)),  \* CALL $0110; JR -5 / RET
     ImageAt(Entry, <<224, 68, 24, 252>>)}                                     \* LDH ($44),A; JR -4

InitLive == \E image \in LiveImages : InitMachine(NewMBC1Cartridge(image), FALSE)

NextLive ==
    \/ StepFrameCall(MaxCallsL)
    \/ StepFrameSecondLoop
    \/ InStepFrame /\ CheckInterrupts(MaxClockL)
    \/ InStepFrame /\ Execute
    \/ StepFrameReturn
    \/ Rebase

\* gb.Step() of a loop of StepFrame begins: phase goes to "fetch".
StepBegins ==
    /\ InStepFrame
    /\ phase = "boundary" /\ ~cpu.halt /\ cpu.clock < MaxClockL
    /\ phase' = "fetch"

\* gb.Step() ends: phase leaves "fetch".
StepEnds == phase = "fetch" /\ phase' \in {"boundary", "panic"}

\* StepFrame is sequential code that waits for nothing: whatever it can do
\* next, it does.  Each step of stepInstruction changes phase, and the
\* fairness of these steps is stated on phase.
SpecFrameLive ==
    /\ InitLive /\ [][NextLive]_vars
    /\ WF_vars(StepFrameCall(MaxCallsL))
    /\ WF_vars(StepFrameSecondLoop)
    /\ WF_vars(StepFrameReturn)
    /\ WF_vars(Rebase)
    /\ WF_phase(StepBegins)
    /\ WF_phase(StepEnds)

\* C15: a call of StepFrame eventually returns, with the PPU clock at
\* 65664 or more and the ticks elapsed as its value, whatever the program
\* writes to the PPU registers and whether or not the CPU is halted.
C15_StepFrameReturns ==
    /\ (call.fn = "StepFrame") ~> (call.fn = "none")
    /\ [][call.fn = "StepFrame" /\ call'.fn = "none" =>
            /\ ppu'.clock >= VBlankClock
            /\ call'.ret = cpu'.clock - call.startClock]_vars

-----------------------------------------------------------------------------
(* Cartridge: an MBC1 image of CartBanks banks whose marked bytes differ   *)
(* from bank to bank, no boot ROM, and a host that writes the enable and   *)
(* bank registers and the external RAM and reads back.                     *)

CartBanks == 40

\* Offsets in a bank
CartOffsets == {0, 1, 16383}

CartImage ==
    [len  |-> CartBanks * 16384,
     data |-> [a \in {k * 16384 + o : k \in 0..(CartBanks - 1), o \in CartOffsets} |->
                 1 + (((a \div 16384) * 5 + (a % 16384)) % 250)]]

\* The byte of the image at index i, 0xFF past its end.
CartByte(i) == IF i >= CartImage.len THEN 255 ELSE Get(CartImage.data, i)

BankValues == {0, 1, 2, 31, 32, 33, 39, 64, 65, 96, 224, 255}

CartWrites ==
    {<<a, v>> : a \in {8192, 16383}, v \in BankValues}
    \cup {<<a, v>> : a \in {0, 8191}, v \in {10, 26, 0, 11}}
    \cup {<<a, v>> : a \in {40960, 49151}, v \in {85, 0}}
    \cup {<<a, v>> : a \in {16384, 24576}, v \in {1, 3}}

CartReads == {0, 1, 16383, 16384, 16385, 32767, 40960, 49151}

InitCart == InitMachine(NewMBC1Cartridge(CartImage), FALSE)

NextCart ==
    \/ \E w \in CartWrites : HostWrite(w[1], w[2])
    \/ \E a \in CartReads : HostRead(a)

SpecCart == InitCart /\ [][NextCart]_vars

\* The bank that the value v of the bank register selects.
BankOf(v) == IF v % 32 = 0 THEN v + 1 ELSE v

\* C17: a read of 0x4000+o returns the image byte (b << 14) + o of the bank
\* b that the value last written to 0x2000-0x3FFF selects (v+1 when
\* v & 0x1F = 0, else v), 0xFF past the end of the image; bank 1 before
\* any such write; reads of 0x0000-0x3FFF come from bank 0.
C17_BankSelect ==
    /\ [](\A o \in CartOffsets : Read(GB, o) = CartByte(o))
    /\ [](last.op = "init" => \A o \in CartOffsets : Read(GB, 16384 + o) = CartByte(16384 + o))
    /\ [][IF last'.op = "Write" /\ last'.addr \in 8192..16383
          THEN \A o \in CartOffsets :
                  Read(GBn, 16384 + o) = CartByte(BankOf(last'.value) * 16384 + o)
          ELSE \A o \in CartOffsets : Read(GBn, 16384 + o) = Read(GB, 16384 + o)]_vars

\* 0x20 has been written to the bank register and 0x4000 reads the first
\* byte of bank 33.
C17_Witness ==
    /\ last = Op("Write", 8192, 32)
    /\ Read(GB, 16384) = CartByte(33 * 16384)
    /\ Read(GB, 16384) # CartByte(16384) /\ Read(GB, 16384) # CartByte(32 * 16384)

\* C18: with the RAM enabled (low nibble 0xA last written to
\* 0x0000-0x1FFF) a byte written to 0xA000-0xBFFF is read back from there.
C18_RamReadBack ==
    [][/\ last'.op = "Write" /\ last'.addr \in 40960..49151
       /\ cart.enableram
       => Read(GBn, last'.addr) = last'.value]_vars

-----------------------------------------------------------------------------
(* Sprites over the background: the host writes a tile, the tile map, one  *)
(* OAM entry, the palettes and LCDC, in this order, before the program     *)
(* (LD A,8; LDH ($FF),A; HALT) runs; the first scanline is then drawn one  *)
(* Tick at a time.                                                         *)

MaxClockS == 460

\* <<address, values>>: line 0 of tile 1 has colour index 1 in every
\* pixel; the background shows tile 1 or tile 0 in its first column; the
\* object is tile 1 at line 0, pixels 4 to 11, with or without the priority
\* bit; BGP maps index 1 to colour 1 and OBP0 maps it to colour 2; LCDC
\* turns on the LCD, the objects and the background.
SceneWrites ==
    << <<32784, {255}>>, <<38912, {0, 1}>>,
       <<65024, {16}>>, <<65025, {12}>>, <<65026, {1}>>, <<65027, {0, 128}>>,
       <<65351, {228}>>, <<65352, {27}>>, <<65344, {147}>> >>

\* The number of scene writes made: the host writes them in order and stops
\* for good once the machine has stepped.
Written ==
    CASE last.op = "init" -> 0
      [] last.op = "Write" -> CHOOSE k \in 1..Len(SceneWrites) : SceneWrites[k][1] = last.addr
      [] OTHER -> Len(SceneWrites)

SceneWrite ==
    \E k \in 1..Len(SceneWrites) :
        /\ Written = k - 1
        /\ \E v \in SceneWrites[k][2] : HostWrite(SceneWrites[k][1], v)

InitSprite == InitMachine(NewMBC1Cartridge(ImageAt(Entry, <<62, 8, 224, 255, 118>>)), FALSE)

NextSprite ==
    \/ SceneWrite
    \/ CheckInterrupts(MaxClockS)
    \/ Execute
    \/ TickHalted(MaxClockS)

SpecSprite == InitSprite /\ [][NextSprite]_vars

\* The step is a Tick in which pixel draws the pixel at (ppu.lx, ppu.ly).
DrawsPixel ==
    /\ last'.op = "tick" /\ ~cpu.dma
    /\ ppu.lcdDisplayEnable /\ ppu.clock < 65664
    /\ ppu.clock % 456 >= 80 /\ ppu.clock % 456 < 240

\* The cached objects with a nonzero colour index at the pixel to draw.
ObjectsAtPixel ==
    IF ~ppu.objDisplay THEN {}
    ELSE {n \in 0..(ppu.numObjects - 1) :
            /\ ppu.lx - ppu.objects[n].x \in 0..7
            /\ PatternIndex(ppu.objects[n].data, ppu.lx - ppu.objects[n].x) # 0}

\* The colour of cached object n at the pixel to draw.
ObjectColor(n) ==
    ppu.obp[IF getBit(ppu.objects[n].attr, 4) THEN 1 ELSE 0]
           [PatternIndex(ppu.objects[n].data, ppu.lx - ppu.objects[n].x)]

\* C23: at every pixel where a cached sprite has a nonzero colour index the
\* output is the sprite's colour, unless the sprite's priority bit (attr
\* bit 7) is set and the background/window colour index is nonzero, in
\* which case it is the background colour.  (ppu'.bgPalette and
\* ppu'.bgColor are the background index and colour pixel has found.)
C23_SpritePriority ==
    [][(DrawsPixel /\ ObjectsAtPixel # {}) =>
         LET n == Lowest(ObjectsAtPixel)
         IN  ppu'.screen[ppu.ly * 160 + ppu.lx] =
                rgbColors[(IF getBit(ppu.objects[n].attr, 7) /\ ppu'.bgPalette # 0
                           THEN ppu'.bgColor ELSE ObjectColor(n)) + 1]]_vars

-----------------------------------------------------------------------------
(* Disassembler (disasm.go).  A reader is [data, pos, chunk, asked]: the    *)
(* bytes of the stream, the number consumed, the most bytes one Read call  *)
(* hands out, and the number of bytes asked for so far.  Past the end of   *)
(* data a Read returns short (with an error that fetch8 and fetch16        *)
(* ignore).  An index outside a table is a Go panic: the text is Panic.    *)

Panic == "panic: runtime error: index out of range"

\* table[i], tables being indexed from 0 in the source
At(table, i) == IF i >= 0 /\ i < Len(table) THEN table[i + 1] ELSE Panic

regtable == <<"b", "c", "d", "e", "h", "l", "(hl)", "a">>
rp1table == <<"bc", "de", "hl", "sp">>
rp2table == <<"bc", "de", "hl", "af">>
cndtable == <<"nz", "z", "nc", "c">>
alutable == <<"add a,", "adc a,", "sub a,", "sbc a,", "and", "xor", "or", "cp">>
rottable == <<"rlc", "rrc", "rl", "rr", "sla", "sra", "sll", "srl">>

HexDigits == <<"0", "1", "2", "3", "4", "5", "6", "7",
               "8", "9", "a", "b", "c", "d", "e", "f">>

\* %0wx of a number: at least w hexadecimal digits
RECURSIVE FmtHex(_, _)
FmtHex(n, w) ==
    IF n = 0 /\ w <= 0 THEN ""
    ELSE FmtHex(n \div 16, w - 1) \o HexDigits[(n % 16) + 1]

DecDigits == <<"0", "1", "2", "3", "4", "5", "6", "7", "8", "9">>

\* %d of a natural number
RECURSIVE FmtNat(_)
FmtNat(n) ==
    IF n < 10 THEN DecDigits[n + 1]
    ELSE FmtNat(n \div 10) \o DecDigits[(n % 10) + 1]

\* %d and %+d of an int8
FmtD(n) == IF n < 0 THEN "-" \o FmtNat(0 - n) ELSE FmtNat(n)

FmtPlusD(n) == IF n < 0 THEN "-" \o FmtNat(0 - n) ELSE "+" \o FmtNat(n)

\* %04x of a string: the hexadecimal digits of its bytes
FmtHexString(s) ==
    CASE s = "bc" -> "6263" [] s = "de" -> "6465"
      [] s = "hl" -> "686c" [] s = "sp" -> "7370"
      [] OTHER -> s

\* fmt.Sprintf: the pieces of the format and the formatted operands, in
\* order; an operand whose evaluation panicked ends the call.
RECURSIVE Join(_)
Join(parts) == IF parts = <<>> THEN "" ELSE Head(parts) \o Join(Tail(parts))

Sprintf(parts) ==
    IF \E i \in 1..Len(parts) : parts[i] = Panic THEN Panic ELSE Join(parts)

NewReader(data, chunk) == [data |-> data, pos |-> 0, chunk |-> chunk, asked |-> 0]

\* r.Read(b) with len(b) = k: the buffer afterwards (zero where nothing was
\* read) and the reader afterwards.
ReaderRead(r, k) ==
    LET avail == Len(r.data) - r.pos
        n     == IF k < avail THEN (IF k < r.chunk THEN k ELSE r.chunk)
                 ELSE (IF avail < r.chunk THEN avail ELSE r.chunk)
    IN  [b |-> [i \in 1..k |-> IF i <= n THEN r.data[r.pos + i] ELSE 0],
         r |-> [r EXCEPT !.pos = @ + n, !.asked = @ + k]]

fetch8(r) ==
    LET rd == ReaderRead(r, 1) IN [v |-> rd.b[1], r |-> rd.r]

fetch16(r) ==
    LET rd == ReaderRead(r, 2) IN [v |-> rd.b[2] * 256 + rd.b[1], r |-> rd.r]

\* The result of a disassembly: the text and the reader afterwards.
Asm(text, r) == [text |-> text, r |-> r]

\* A text followed by a 16-bit / an 8-bit / a signed 8-bit operand and a tail
Asm16(pre, r, post) ==
    LET m == fetch16(r) IN Asm(Sprintf(<<pre, FmtHex(m.v, 4), post>>), m.r)

Asm8(pre, r, post) ==
    LET m == fetch8(r) IN Asm(Sprintf(<<pre, FmtHex(m.v, 2), post>>), m.r)

AsmPlusD(pre, r) ==
    LET m == fetch8(r) IN Asm(Sprintf(<<pre, FmtPlusD(Signed(m.v))>>), m.r)

AsmD(pre, r) ==
    LET m == fetch8(r) IN Asm(Sprintf(<<pre, FmtD(Signed(m.v))>>), m.r)

\* The condition of JR taken from cndtable[y]: a faulty variant that
\* indexes past the table.
JrConditionUnshifted(y) == At(cndtable, y)

\* The condition of a conditional JR (y = 4..7)
JrCondition(y) == At(cndtable, y - 4)

\* The case x == 0 of disassemble
disassembleX0(op, r, y, z, p, q) ==
    CASE z = 0 ->
           (CASE y = 0 -> Asm("nop", r)
              [] y = 1 -> Asm16("ld $", r, ", sp")
              [] y = 2 -> Asm("stop", r)
              [] y = 3 -> AsmPlusD("jr ", r)
              [] OTHER -> AsmPlusD(Sprintf(<<"jr ", JrCondition(y), ", ">>), r))
      [] z = 1 ->
           IF q = 0 THEN Asm16(Sprintf(<<"ld ", At(rp1table, p), ", $">>), r, "")
           ELSE Asm(Sprintf(<<"add hl, $", FmtHexString(At(rp1table, p))>>), r)
      [] z = 2 ->
           Asm(At(IF q = 0
                  THEN <<"ld (bc), a", "ld (de), a", "ld (hl+), a", "ld (hl-), a">>
                  ELSE <<"ld a, (bc)", "ld a, (de)", "ld a, (hl+)", "ld a, (hl-)">>, p), r)
      [] z = 3 ->
           Asm(Sprintf(<<IF q = 0 THEN "inc " ELSE "dec ", At(rp1table, p)>>), r)
      [] z = 4 -> Asm(Sprintf(<<"inc ", At(regtable, y)>>), r)
      [] z = 5 -> Asm(Sprintf(<<"dec ", At(regtable, y)>>), r)
      [] z = 6 -> Asm8(Sprintf(<<"ld ", At(regtable, y), ", $">>), r, "")
      [] z = 7 ->
           Asm(At(<<"rlca", "rrca", "rla", "rra", "daa", "cpl", "scf", "ccf">>, y), r)

\* The text for the encodings that fall out of the switch
Db(op, r) == Asm(Sprintf(<<"db $", FmtHex(op, 2)>>), r)

\* The case x == 3 of disassemble
disassembleX3(op, r, y, z, p, q) ==
    CASE z = 0 ->
           (CASE y < 4 -> Asm(Sprintf(<<"ret ", At(cndtable, y)>>), r)
              [] y = 4 -> Asm8("ld ($ff", r, "), a")
              [] y = 5 -> AsmD("add sp, ", r)
              [] y = 6 -> Asm8("ld a, ($ff", r, ")")
              [] y = 7 -> AsmPlusD("ld hl, sp", r))
      [] z = 1 ->
           IF q = 0 THEN Asm(Sprintf(<<"pop ", At(rp2table, p)>>), r)
           ELSE Asm(At(<<"ret", "reti", "jp (hl)", "ld sp, hl">>, p), r)
      [] z = 2 ->
           (CASE y < 4 -> Asm16(Sprintf(<<"jp ", At(cndtable, y), ", $">>), r, "")
              [] y = 4 -> Asm("ld (c), a", r)
              [] y = 5 -> Asm16("ld ($", r, "), a")
              [] y = 6 -> Asm("ld a, (c)", r)
              [] y = 7 -> Asm16("ld a, ($", r, ")"))
      [] z = 3 ->
           (CASE y = 0 -> Asm16("jp $", r, "")
              [] y = 6 -> Asm("di", r)
              [] y = 7 -> Asm("ei", r)
              [] OTHER -> Db(op, r))
      [] z = 4 ->
           IF y < 4 THEN Asm16(Sprintf(<<"call ", At(cndtable, p), ", $">>), r, "")
           ELSE Db(op, r)
      [] z = 5 ->
           (CASE y \in {0, 2, 4, 6} -> Asm(Sprintf(<<"push ", At(rp2table, p)>>), r)
              [] y = 1 -> Asm16("call $", r, "")
              [] OTHER -> Db(op, r))
      [] z = 6 -> Asm8(Sprintf(<<At(alutable, y), " $">>), r, "")
      [] z = 7 -> Asm(Sprintf(<<"rst $", FmtHex(y * 8, 4)>>), r)

disassemble(op, r) ==
    LET x == (op \div 64) % 8
        y == (op \div 8) % 8
        z == op % 8
        p == y \div 2
        q == y % 2
    IN  CASE x = 0 -> disassembleX0(op, r, y, z, p, q)
          [] x = 1 -> IF z = 6 /\ y = 6 THEN Asm("halt", r)
                      ELSE Asm(Sprintf(<<"ld ", At(regtable, y), ", ", At(regtable, z)>>), r)
          [] x = 2 -> Asm(Sprintf(<<At(alutable, y), " ", At(regtable, z)>>), r)
          [] x = 3 -> disassembleX3(op, r, y, z, p, q)

disassembleCB(op, r) ==
    LET x == (op \div 64) % 8
        y == (op \div 8) % 8
        z == op % 8
    IN  CASE x = 0 -> Asm(Sprintf(<<At(rottable, y), ", ", At(regtable, z)>>), r)
          [] x = 1 -> Asm(Sprintf(<<"bit ", FmtNat(y), ", ", At(regtable, z)>>), r)
          [] x = 2 -> Asm(Sprintf(<<"res ", FmtNat(y), ", ", At(regtable, z)>>), r)
          [] x = 3 -> Asm(Sprintf(<<"set ", FmtNat(y), ", ", At(regtable, z)>>), r)

Disassemble(r) ==
    LET m == fetch8(r)
    IN  IF m.v = 203
        THEN LET n == fetch8(m.r) IN disassembleCB(n.v, n.r)
        ELSE disassemble(m.v, m.r)

(* The streams disassembled: every first byte, every second byte after     *)
(* 0xCB, streams of 0 to MaxStream bytes, read whole or a byte at a time;   *)
(* one call in a run.                                                      *)

MaxStream == 3

SecondBytes == {0, 80, 124, 128, 255}

ThirdBytes == {1, 255}

Streams ==
    {<<>>} \cup {<<a>> : a \in 0..255}
    \cup {<<a, b>> : a \in 0..255, b \in SecondBytes}
    \cup {<<203, b>> : b \in 0..255}
    \cup {<<a, b, c>> : a \in 0..255, b \in SecondBytes, c \in ThirdBytes}

Chunks == {1, MaxStream}

\* A call of Disassemble by the host
DisassembleCall(data, chunk) ==
    /\ phase = "boundary" /\ last.op = "init"
    /\ Len(data) <= MaxStream
    /\ last' = Op("Disassemble", [data |-> data, chunk |-> chunk],
                  Disassemble(NewReader(data, chunk)))
    /\ UNCHANGED <<bus, cpu, ppu, cart, wram, phase, call>>

InitDisasm == InitMachine(NewMBC1Cartridge(ImageAt(Entry, <<0>>)), FALSE)

NextDisasm == \E data \in Streams, chunk \in Chunks : DisassembleCall(data, chunk)

SpecDisasm == InitDisasm /\ [][NextDisasm]_vars

\* The opcodes to which the LR35902 assigns no instruction.
NoInstruction == {211, 219, 221, 227, 228, 235, 236, 237, 244, 252, 253}

\* The first byte the call has seen (0 from a stream that has run out).
FirstByte == IF last.addr.data = <<>> THEN 0 ELSE last.addr.data[1]

-----------------------------------------------------------------------------
(* Steps: Machine.Step called again and again on programs that halt, with  *)
(* and without enabled interrupts, on a timer that requests interrupts     *)
(* every 96 ticks, and on every opcode.                                    *)

MaxClockH == 600

\* LD A,250; LDH ($05),A; LDH ($06),A; LD A,5; LDH ($07),A; LD A,4;
\* LDH ($FF),A; ei; op; NOP; JR -4: the timer runs at 262144 Hz from
\* TIMA = TMA = 250, IE is the timer, ei is EI or NOP and op is HALT or
\* NOP.  At the timer's vector CALL $0060; RET, and RETI at 0x0060.
WakeImage(ei, op) ==
    Overlay(ImageAt(Entry, <<62, 250, 224, 5, 224, 6, 62, 5, 224, 7, 62, 4, 224, 255,
                             ei, op, 0, 24, 252>>),
            Overlay(ImageAt(80, <<205, 96, 0, 201>>), ImageAt(96, <<217>>)))

HaltImages ==
    {ImageAt(Entry, <<118, 60, 60, 24, 251>>),            \* HALT; INC A; INC A; JR -5
     ImageAt(Entry, <<62, 4, 224, 255, 224, 15, 118, 0, 24, 252>>),
                            \* LD A,4; LDH ($FF),A; LDH ($0F),A; HALT; NOP; JR -4
     WakeImage(251, 118), WakeImage(0, 118), WakeImage(251, 0)}

\* Every opcode once, after the flags are set or cleared.
OpcodeImages ==
    {ImageAt(Entry, prog) : prog \in
        {CpuProgram(nn, 1, op, 136, 192) : nn \in {0, 240}, op \in 0..255 \ {203}}
        \cup {CpuProgram(0, 1, 203, x, 0) : x \in 0..255}}

InitStep == \E image \in HaltImages \cup OpcodeImages :
                InitMachine(NewMBC1Cartridge(image), FALSE)

NextStep ==
    \/ StepHalted(MaxClockH)
    \/ CheckInterrupts(MaxClockH)
    \/ Execute

SpecStep == InitStep /\ [][NextStep]_vars

\* C25: the CPU is never left halted at an instruction boundary while
\* IRQ & IE & 0x1F != 0, whatever IME is, HALT executed with IME = 0 while
\* an enabled interrupt is pending included.
C25_HaltWakeUp ==
    ~(phase = "boundary" /\ cpu.halt /\ And(And(cpu.irq, cpu.ie), 31) # 0)

\* The CPU registers
Registers == <<cpu.a, cpu.f, cpu.b, cpu.c, cpu.d, cpu.e, cpu.h, cpu.l, cpu.sp>>

\* C26: HALT executed with IE & 0x1F = 0 does not enter the halt state and
\* increments PC once more than the fetch did, skipping the next byte;
\* HALT executed with IE & 0x1F # 0 enters the halt state; in the halt
\* state a Step is one machine cycle, fetches no opcode and leaves PC and
\* the registers as they are.
C26_Halt ==
    [][/\ (phase = "fetch" /\ last'.op = "exec" /\ last'.value = 118) =>
              IF cpu.ie % 32 = 0
              THEN ~cpu'.halt /\ cpu'.pc = U16(cpu.pc + 2) /\ last'.addr = cpu.pc
              ELSE cpu'.halt
       /\ (phase = "boundary" /\ cpu.halt) =>
              /\ last'.op = "halt" /\ phase' = "boundary"
              /\ cpu'.clock = cpu.clock + 4
              /\ cpu'.pc = cpu.pc /\ UNCHANGED Registers]_vars

\* A halted Step has been taken after HALT was executed with the timer
\* interrupt enabled, and the CPU is still halted behind the HALT.
C26_Witness ==
    /\ last = Op("halt", 273, 0) /\ Read(GB, 271) = 118
    /\ cpu.halt /\ cpu.ie = 4 /\ cpu.pc = 273
    /\ phase = "boundary"

\* The step is the fetch and dispatch of an instruction that stores to
\* 0xFF0F (LDH ($0F),A, the one such store of the programs run here).
StoresIrq == last'.op = "exec" /\ last'.value = 224 /\ Read(GB, U16(cpu.pc + 1)) = 15

\* C27: a vector is entered only by the check at the top of
\* stepInstruction, for a request that was pending when the step began.
\* While an instruction is fetched and executed, and while a halted cycle
\* runs, no request is serviced: IME stays set unless the instruction is
\* DI, no IRQ bit is cleared unless the instruction stores to 0xFF0F, and a
\* halted cycle leaves PC, SP and IME alone; a request raised meanwhile
\* waits for the check of a later step.
C27_BoundaryOnly ==
    [][/\ last'.op = "irq" =>
              /\ phase = "boundary" /\ phase' = "fetch"
              /\ cpu.ime /\ last'.value \in Pending(cpu)
              /\ cpu'.pc = interruptVectorMap[last'.value]
       /\ (phase = "boundary" /\ phase' = "fetch") =>
              (last'.op = "irq" <=> (cpu.ime /\ Pending(cpu) # {}))
       /\ phase = "fetch" =>
              /\ last'.op \in {"exec", "execCB", "panic"}
              /\ (cpu.ime /\ ~(last'.op = "exec" /\ last'.value = 243)) => cpu'.ime
              /\ ~StoresIrq => And(cpu'.irq, cpu.irq) = cpu.irq
       /\ (phase = "boundary" /\ cpu.halt) =>
              /\ cpu'.ime = cpu.ime /\ cpu'.pc = cpu.pc /\ cpu'.sp = cpu.sp
              /\ And(cpu'.irq, cpu.irq) = cpu.irq]_vars

\* The timer has requested its interrupt during the cycles of a NOP or JR
\* of the loop, with IME set and the timer enabled in IE: the instruction
\* has completed, the request is pending and the PC is still in the loop.
C27_Witness ==
    /\ phase = "boundary" /\ last.op = "exec" /\ last.value \in {0, 24}
    /\ cpu.ime /\ cpu.ie = 4 /\ getBit(cpu.irq, 2)
    /\ cpu.pc \in 271..275

\* The ticks of the Step in progress spent before the opcode fetch: the
\* two machine cycles of the push when checkInterrupts has just serviced
\* an interrupt.
TicksBeforeFetch == IF last.op = "irq" THEN 8 ELSE 0

\* C28 as stated: every call of Step advances the clock by at least one
\* machine cycle and by at most 6 (24 ticks), steps in which an interrupt is
\* accepted included.
C28_StepBoundAsStated ==
    [][/\ (phase = "boundary" /\ cpu.halt) => cpu'.clock - cpu.clock \in 4..24
       /\ (phase = "fetch" /\ last'.op # "panic") =>
              TicksBeforeFetch + (cpu'.clock - cpu.clock) \in 4..24]_vars

\* C28, amended: a halted Step is one machine cycle; a Step in which no
\* interrupt is accepted is 1 to 6 machine cycles (4 to 24 ticks); a Step
\* in which an interrupt is accepted spends 2 machine cycles on the push
\* and then runs the instruction at the vector, 3 to 8 machine cycles (12
\* to 32 ticks) in all.
C28_StepBound ==
    [][/\ (phase = "boundary" /\ cpu.halt) => cpu'.clock = cpu.clock + 4
       /\ (phase = "boundary" /\ phase' = "fetch") =>
              cpu'.clock = cpu.clock + (IF last'.op = "irq" THEN 8 ELSE 0)
       /\ (phase = "fetch" /\ last'.op # "panic") =>
              /\ cpu'.clock - cpu.clock \in 4..24
              /\ TicksBeforeFetch + (cpu'.clock - cpu.clock) \in
                    (IF last.op = "irq" THEN 12..32 ELSE 4..24)]_vars

\* The Step that serviced the timer interrupt has gone on to run the CALL
\* at the vector: both return addresses are on the stack and the PC is at
\* the routine called.
C28_Witness ==
    /\ phase = "boundary" /\ last = Op("exec", 80, 205)
    /\ cpu.pc = 96 /\ cpu.sp = 65530 /\ ~cpu.ime
    /\ wide(Read(GB, 65531), Read(GB, 65530)) = 83
    /\ wide(Read(GB, 65533), Read(GB, 65532)) \in 271..275

-----------------------------------------------------------------------------
(* Ticks: the program halts with only the serial interrupt enabled (LD A,8; *)
(* LDH ($FF),A; HALT), so that every later step is a stepCycle, taken one   *)
(* Tick at a time; the host turns on the LCD and the timer and starts OAM   *)
(* DMA transfers at the instants of its schedule.  Pages 2 and 3 of the     *)
(* cartridge hold object tables.                                            *)

MaxClockT == 680

\* Page 2: objects 0 and 1 on line 1; page 3: object 0 on line 17.
TickImage ==
    Overlay(ImageAt(Entry, <<62, 8, 224, 255, 118>>),
            Overlay(Overlay(ImageAt(512, <<17, 8, 1, 0, 17, 16, 1, 0>>), ImageAt(671, <<77>>)),
                    Overlay(ImageAt(768, <<33, 8, 1, 0>>), ImageAt(927, <<99>>))))

\* <<CPU clock of the write, address, value>>: LCDC, TAC, and DMA from
\* page 2 four ticks before line 1 begins, restarted forty ticks later from
\* page 3, from OAM itself or from the page of the I/O registers.
TickWrites ==
    {<<24, 65344, 147>>, <<24, 65287, 5>>, <<452, 65350, 2>>,
     <<492, 65350, 3>>, <<492, 65350, 254>>, <<492, 65350, 255>>}

InitTick == InitMachine(NewMBC1Cartridge(TickImage), FALSE)

NextTick ==
    \/ \E w \in TickWrites : cpu.clock = w[1] /\ HostWrite(w[2], w[3])
    \/ CheckInterrupts(MaxClockT)
    \/ Execute
    \/ TickHalted(MaxClockT)

SpecTick == InitTick /\ [][NextTick]_vars

\* The step is one pass of the loop of stepCycle.
TickStep == last'.op = "tick"

\* The OAM entries of table oam that lie on line ly for objects of 8 lines.
OnLine(oam, ly) == {n \in 0..39 : ly - (Get(oam, n * 4) - 16) \in 0..7}

\* C29: every tick runs the DMA transfer, the PPU tick, the audio tick and
\* the timer tick and then increments the clock, four ticks to a machine
\* cycle: the scanline set up in a tick counts the objects of the OAM as
\* the DMA copy of the same tick has left it, and the divider and TIMA are
\* stepped according to the clock before the tick's increment.
C29_SubStepOrder ==
    /\ [](phase = "boundary" => cpu.clock % 4 = 0)
    /\ [][TickStep =>
            /\ cpu'.clock = cpu.clock + 1
            /\ (phase' = "boundary") <=> (cpu'.clock % 4 = 0)
            /\ (ppu.lcdDisplayEnable /\ ~ppu.objSize /\ ppu.clock < 65664
                  /\ ppu.clock % 456 = 0 /\ Cardinality(OnLine(ppu'.oam, ppu.ly)) < 10)
                  => ppu'.numObjects = Cardinality(OnLine(ppu'.oam, ppu.ly))
            /\ cpu'.div = cpu.div + (IF cpu.clock % 256 = 0 THEN 1 ELSE 0)
            /\ TimerMask(cpu.timer) # 0 =>
                  cpu'.tima = IF cpu.clock % TimerMask(cpu.timer) # 0 THEN cpu.tima
                              ELSE IF cpu.tima = 255 THEN cpu.tma ELSE cpu.tima + 1]_vars

\* The tick that begins line 1 has copied the y of object 1 and set up the
\* scanline: the PPU has counted object 1, whose other bytes are not yet
\* copied.
C29_Witness ==
    /\ last.op = "tick" /\ cpu.clock = 457 /\ ppu.clock = 457 /\ ppu.ly = 1
    /\ cpu.dma /\ cpu.dmaindex = 5
    /\ Get(ppu.oam, 4) = 17 /\ Get(ppu.oam, 5) = 0
    /\ ppu.numObjects = 2

\* C30: a write of page P to 0xFF46 starts a transfer at index 0 from page
\* P, a running one included; every tick of an active transfer copies the
\* byte at (P<<8)+index to 0xFE00+index, changes nothing else in memory
\* and adds 1 to the index, and the transfer is inactive once the index is
\* 160, that is 160 ticks after the write; an inactive transfer copies
\* nothing; the index is in [0,160], below 160 while active.
C30_OamDma ==
    /\ [](cpu.dmaindex \in 0..160 /\ (cpu.dma => cpu.dmaindex < 160))
    /\ [][/\ (last'.op = "Write" /\ last'.addr = 65350) =>
                cpu'.dma /\ cpu'.dmaindex = 0 /\ cpu'.dmabank = last'.value
          /\ (TickStep /\ cpu.dma) =>
                /\ ppu'.oam = Put(ppu.oam, cpu.dmaindex,
                                  Read(GB, cpu.dmabank * 256 + cpu.dmaindex))
                /\ cpu'.dmaindex = cpu.dmaindex + 1
                /\ cpu'.dmabank = cpu.dmabank
                /\ cpu'.dma = (cpu.dmaindex + 1 # 160)
                /\ ppu'.vram = ppu.vram /\ cpu'.hram = cpu.hram
                /\ UNCHANGED <<wram, cart, bus>>
          /\ (TickStep /\ ~cpu.dma) =>
                /\ ppu'.oam = ppu.oam
                /\ ~cpu'.dma /\ cpu'.dmaindex = cpu.dmaindex]_vars

\* The transfer restarted from page 3 at clock 492 has ended with the tick
\* that took the clock to 652: OAM holds page 3 from its first byte to its
\* last, and the bytes of page 2 copied before the restart are gone.
C30_Witness ==
    /\ last.op = "tick" /\ cpu.clock = 652
    /\ ~cpu.dma /\ cpu.dmaindex = 160 /\ cpu.dmabank = 3
    /\ Get(ppu.oam, 0) = 33 /\ Get(ppu.oam, 159) = 99 /\ Get(ppu.oam, 4) = 0

-----------------------------------------------------------------------------
(* Timers: the program of the PPU timing section halts for good, and the   *)
(* host writes TAC, TIMA and TMA once the CPU is halted and TAC again      *)
(* later, so that every divisor, the disabled timer and the overflow of    *)
(* TIMA into TMA occur.                                                    *)

MaxClockM == 2100

\* <<CPU clock of the write, address, value>>
TimerWrites ==
    {<<24, 65287, v>> : v \in {3, 4, 5, 6, 7}}
        \cup {<<24, 65285, 254>>, <<24, 65286, 240>>,
              <<1200, 65287, 0>>, <<1200, 65287, 7>>}

InitTimer == InitMachine(NewMBC1Cartridge(ImageAt(Entry, <<62, 8, 224, 255, 118>>)), FALSE)

NextTimer ==
    \/ \E w \in TimerWrites : cpu.clock = w[1] /\ HostWrite(w[2], w[3])
    \/ CheckInterrupts(MaxClockM)
    \/ Execute
    \/ TickHalted(MaxClockM)

SpecTimer == InitTimer /\ [][NextTimer]_vars

\* The ticks per TIMA increment selected by the low two bits of TAC.
Divisor(tac) ==
    CASE tac % 4 = 0 -> 1024
      [] tac % 4 = 1 -> 16
      [] tac % 4 = 2 -> 64
      [] tac % 4 = 3 -> 256

\* C31: while TAC bit 2 is set, a tick increments TIMA exactly when the
\* clock is a multiple of d = 1024, 16, 64, 256 for TAC & 3 = 0, 1, 2, 3,
\* that is once every d ticks; an increment of 0xFF loads TIMA with TMA in
\* the same tick and sets IRQ bit 2; while TAC bit 2 is clear no tick
\* changes TIMA or raises the timer interrupt.
C31_Tima ==
    [][TickStep =>
         IF And(cpu.timer, 4) # 0 /\ cpu.clock % Divisor(cpu.timer) = 0
         THEN IF cpu.tima = 255
              THEN cpu'.tima = cpu.tma /\ And(cpu'.irq, 4) = 4
              ELSE cpu'.tima = cpu.tima + 1 /\ And(cpu'.irq, 4) = And(cpu.irq, 4)
         ELSE cpu'.tima = cpu.tima /\ And(cpu'.irq, 4) = And(cpu.irq, 4)]_vars

\* With TAC = 4, TIMA = 0xFE and TMA = 0xF0 written at clock 24, the tick
\* at clock 1024 has made TIMA 0xFF and the tick at clock 2048 has loaded
\* it with TMA and requested the timer interrupt.
C31_Witness ==
    /\ last.op = "tick" /\ cpu.clock = 2049 /\ cpu.timer = 4
    /\ cpu.tima = 240 /\ cpu.tma = 240 /\ And(cpu.irq, 4) = 4

-----------------------------------------------------------------------------
(* The divider: the same halted program over 2^16 ticks and more, with the *)
(* timer left disabled or enabled and DIV written by the host early, late  *)
(* or never, so that the value read at 0xFF04 wraps from 0xFF to 0.        *)

MaxClockD == 66000

\* <<CPU clock of the write, address, value>>
DivWrites ==
    {<<24, 65287, 5>>, <<24, 65286, 240>>, <<600, 65284, 0>>, <<600, 65284, 171>>,
     <<65600, 65284, 255>>}

InitDiv == InitMachine(NewMBC1Cartridge(ImageAt(Entry, <<62, 8, 224, 255, 118>>)), FALSE)

NextDiv ==
    \/ \E w \in DivWrites : cpu.clock = w[1] /\ HostWrite(w[2], w[3])
    \/ CheckInterrupts(MaxClockD)
    \/ Execute
    \/ TickHalted(MaxClockD)

SpecDiv == InitDiv /\ [][NextDiv]_vars

\* C32: the value read at 0xFF04 goes up by one, modulo 256, in the tick
\* of every clock that is a multiple of 256 and in no other tick, so once
\* in every 256 consecutive ticks, with the timer enabled or not; it reads
\* 0 right after a write of any value to 0xFF04.
C32_Div ==
    [][/\ TickStep =>
            Read(GB', 65284) =
                (Read(GB, 65284) + (IF cpu.clock % 256 = 0 THEN 1 ELSE 0)) % 256
       /\ (last'.op = "Write" /\ last'.addr = 65284) => Read(GB', 65284) = 0]_vars

\* Without a write to 0xFF04 the 256th increment, in the tick of clock
\* 65280, has taken the value read from 0xFF to 0, with the timer enabled.
C32_Witness ==
    /\ last.op = "tick" /\ cpu.clock = 65281 /\ cpu.div = 256
    /\ Read(GB, 65284) = 0 /\ cpu.timer = 5

-----------------------------------------------------------------------------
(* The LCD schedule: the halted program over one frame and the start of    *)
(* the next.  The host may fill OAM by a DMA transfer from page 2 of the   *)
(* ROM, switch the LCD on for the first three lines (it switches it off at *)
(* clock of LcdOff) and again before line 144, set the enable bits of STAT  *)
(* (with the mode bits as they read), and clear IF after the first tick of *)
(* some lines and after the start of V-blank.                              *)

MaxClockX == 70728

\* <<CPU clock of the write, address, value>>: the LCD goes off in line 3.
LcdOff == <<1400, 65344, 19>>

\* Page 2 of the ROM: objects 0 and 1 on lines 1 to 8.
LcdImage ==
    Overlay(ImageAt(Entry, <<62, 8, 224, 255, 118>>),
            ImageAt(512, <<17, 8, 1, 0, 17, 16, 1, 0>>))

ClearedLines == {0, 1, 2, 3, 100, 142, 143, 144, 145, 153, 154}

\* <<CPU clock of the write, address, value>>
LcdWrites ==
    {<<24, 65350, 2>>, <<24, 65344, 147>>, <<24, 65345, 122>>, LcdOff,
     <<65600, 65344, 147>>, <<65668, 65295, 0>>}
        \cup {<<456 * k + 4, 65295, 0>> : k \in ClearedLines}

InitLcd == InitMachine(NewMBC1Cartridge(LcdImage), FALSE)

NextLcd ==
    \/ \E w \in LcdWrites : cpu.clock = w[1] /\ HostWrite(w[2], w[3])
    \/ CheckInterrupts(MaxClockX)
    \/ Execute
    \/ ~(cpu.clock = LcdOff[1] /\ ppu.lcdDisplayEnable) /\ TickHalted(MaxClockX)

SpecLcd == InitLcd /\ [][NextLcd]_vars

\* The two mode bits read from STAT.
StatMode(gb) == Read(gb, 65345) % 4

\* The mode that the tick of PPU clock c sets or leaves, by the schedule.
ModeAt(c) ==
    IF c >= 65664 THEN 1
    ELSE IF c % 456 < 80 THEN 2
    ELSE IF c % 456 < 240 THEN 3
    ELSE 0

Visible == ppu.clock < 65664

HClock == ppu.clock % 456

C34_PpuRequests ==
    [][TickStep =>
         /\ And(cpu'.irq, intLCDStat) =
                (IF Visible /\ HClock = 0 THEN intLCDStat ELSE And(cpu.irq, intLCDStat))
         /\ And(cpu'.irq, intVBlank) =
                (IF ppu.clock = 65664 /\ ppu.lcdDisplayEnable
                 THEN intVBlank ELSE And(cpu.irq, intVBlank))]_vars

\* IF was cleared after the first tick of line 143; the tick at PPU clock
\* 65664, with the LCD on and every enable bit of STAT set, has requested
\* V-blank alone.
C34_Witness ==
    /\ last.op = "tick" /\ ppu.clock = 65665 /\ ppu.lcdDisplayEnable
    /\ Read(GB, 65345) = 121 /\ cpu.irq = intVBlank

\* The PPU after the tick of the machine as it is but with the LCD enabled.
TickLcdOn == Invoke([GB EXCEPT !.ppu.lcdDisplayEnable = TRUE], "Tick", 0, 0).ppu

\* C35: while bit 7 of LCDC is clear a tick leaves the frame buffer and
\* the sprite cache of the line as they are, and the PPU clock, LY, LX and
\* the mode bits of STAT become what the same tick makes them with the LCD
\* enabled.
C35_LcdOff ==
    [][TickStep /\ ~ppu.lcdDisplayEnable =>
         /\ ppu'.screen = ppu.screen
         /\ ppu'.objects = ppu.objects
         /\ ppu'.numObjects = ppu.numObjects
         /\ \E on \in {TickLcdOn} :
                /\ ppu'.clock = on.clock
                /\ ppu'.ly = on.ly
                /\ ppu'.lx = on.lx
                /\ ppu'.modeHi = on.modeHi
                /\ ppu'.modeLo = on.modeLo]_vars

\* The LCD went off in line 3: the first tick of line 4 has left the cache
\* holding the two objects as fetched for line 3 and the frame buffer
\* ending with line 2.
C35_Witness ==
    /\ last.op = "tick" /\ ppu.clock = 1825 /\ ~ppu.lcdDisplayEnable
    /\ Get(ppu.oam, 0) = 17 /\ ppu.numObjects = 2 /\ ppu.objects[0].y = 2
    /\ ppu.ly = 4 /\ ppu.lx = 0
    /\ 479 \in DOMAIN ppu.screen /\ 480 \notin DOMAIN ppu.screen

-----------------------------------------------------------------------------
(* Sprite order: the halted program; the host writes line 0 of tile 1, the *)
(* object palettes and LCDC and fills OAM by DMA from a page of the ROM    *)
(* before line 1 begins.  Objects are tile 1 on lines 1 to 8, entry 1 (and *)
(* every odd entry) with palette OBP1.                                     *)

MaxClockO == 700

\* Page 2: object 0 at pixels 12..19 and object 1 at pixels 8..15; page 3:
\* both at pixels 8..15; page 4: objects 0 to 9 at pixels 100-8i..107-8i and
\* object 10 at pixels 0..7.
OrderImage ==
    Overlay(ImageAt(Entry, <<62, 8, 224, 255, 118>>),
      Overlay(ImageAt(512, <<17, 20, 1, 0, 17, 16, 1, 16>>),
        Overlay(ImageAt(768, <<17, 16, 1, 0, 17, 16, 1, 16>>),
                ImageAt(1024, <<17, 108, 1, 0, 17, 100, 1, 16, 17, 92, 1, 0, 17, 84, 1, 16,
                                17, 76, 1, 0, 17, 68, 1, 16, 17, 60, 1, 0, 17, 52, 1, 16,
                                17, 44, 1, 0, 17, 36, 1, 16, 17, 8, 1, 0>>))))

\* <<CPU clock of the write, address, value>>
OrderWrites ==
    {<<24, 32784, 255>>, <<24, 65352, 27>>, <<24, 65353, 255>>, <<24, 65344, 147>>}
        \cup {<<24, 65350, page>> : page \in {2, 3, 4}}

InitOrder == InitMachine(NewMBC1Cartridge(OrderImage), FALSE)

NextOrder ==
    \/ \E w \in OrderWrites : cpu.clock = w[1] /\ HostWrite(w[2], w[3])
    \/ CheckInterrupts(MaxClockO)
    \/ Execute
    \/ TickHalted(MaxClockO)

SpecOrder == InitOrder /\ [][NextOrder]_vars

\* The step is a Tick in which initScanline fills the cache for line ppu.ly.
ScansLine ==
    /\ last'.op = "tick" /\ ~cpu.dma
    /\ ppu.lcdDisplayEnable /\ Visible /\ HClock = 0

\* The first ten, if so many, of the OAM entries on line ppu.ly, in the
\* order of OAM.
RECURSIVE FirstTen(_, _)
FirstTen(n, found) ==
    IF n = 40 \/ Len(found) = 10 THEN found
    ELSE FirstTen(n + 1, IF n \in OnLine(ppu.oam, ppu.ly) THEN Append(found, n) ELSE found)

\* Cache entry m comes before cache entry n: lower X, or equal X and seen
\* earlier in OAM.
Before(p, m, n) ==
    \/ p.objects[m].x < p.objects[n].x
    \/ p.objects[m].x = p.objects[n].x /\ m < n

\* C36: after the OAM scan of a line the cache holds the first ten OAM
\* entries on that line in ascending X, entries of equal X in OAM order;
\* at a pixel with no background colour index where several cached objects
\* are opaque the colour drawn is that of the object with the lowest X, the
\* lowest OAM index among equal X.
C36_SpriteOrder ==
    [][/\ ScansLine =>
            /\ ppu'.numObjects = Len(FirstTen(0, << >>))
            /\ {ppu'.objects[m].x : m \in 0..(ppu'.numObjects - 1)} =
                   {Get(ppu.oam, 4 * FirstTen(0, << >>)[k] + 1) - 8 :
                        k \in 1..Len(FirstTen(0, << >>))}
            /\ \A m, n \in 0..(ppu'.numObjects - 1) :
                   m < n => ppu'.objects[m].x <= ppu'.objects[n].x
       /\ (DrawsPixel /\ ObjectsAtPixel # {} /\ ppu'.bgPalette = 0) =>
            \E n \in ObjectsAtPixel :
                /\ \A m \in ObjectsAtPixel \ {n} : Before(ppu, n, m)
                /\ ppu'.screen[ppu.ly * 160 + ppu.lx] = rgbColors[ObjectColor(n) + 1]]_vars

-----------------------------------------------------------------------------
(* The width of the MBC1 bank register, on the cartridge of SpecCart *)

\* C37: a write of v to 0x2000-0x3FFF sets the low five bits of the ROM
\* bank register to v & 0x1F and leaves its other bits alone; the bits of
\* v above bit 4 have no part in the bank read at 0x4000-0x7FFF, which is
\* the one that v & 0x1F selects.
C37_BankWidth ==
    [][last'.op = "Write" /\ last'.addr \in 8192..16383 =>
         /\ cart'.rombank = (cart.rombank \div 32) * 32 + (last'.value % 32)
         /\ \A o \in CartOffsets :
                Read(GBn, 16384 + o) = CartByte(BankOf(last'.value % 32) * 16384 + o)]_vars

-----------------------------------------------------------------------------
(* BIT: NOP or SCF; LD HL,nn; BIT b,r for every b and r, the address in HL *)
(* being work RAM, the MBC1 bank register (where the ROM holds 5), DIV, LY *)
(* or the DMA register.                                                    *)

MaxClockG == 40

HLValues == {49152, 8192, 65284, 65348, 65350}

BitProgram(pre, nn, x) == <<pre, 33, nn % 256, nn \div 256, 203, x>>

BitImages ==
    {Overlay(ImageAt(Entry, BitProgram(pre, nn, x)), ImageAt(8192, <<5>>)) :
        pre \in {0, 55}, nn \in HLValues, x \in 64..127}

InitBit == \E image \in BitImages : InitMachine(NewMBC1Cartridge(image), FALSE)

NextBit ==
    \/ CheckInterrupts(MaxClockG)
    \/ Execute

SpecBit == InitBit /\ [][NextBit]_vars

\* The second byte of the CB instruction at the program counter.
CBOp == Read(GB, U16(cpu.pc + 1))

\* The operand of the CB instruction at the program counter.
CBOperand == IF CBOp % 8 = 6 THEN Read(GB, hl(cpu)) ELSE Reg(cpu, CBOp % 8)

\* The multiples of 256 from clock a up to, not including, clock b.
DivTicks(a, b) == ((b + 255) \div 256) - ((a + 255) \div 256)

\* C39: BIT b,r sets Z iff bit b of the operand is 0, clears N, sets H and
\* keeps C, and changes nothing else but the program counter and what the
\* passing of its cycles changes: the registers, memory, the cartridge
\* registers, the DMA state, the divider and the PPU clock are as no write
\* to the address in HL leaves them.
C39_BitReadOnly ==
    [][last'.op = "execCB" /\ last'.value \in 64..127 =>
         /\ cpu'.f = (IF getBit(CBOperand, (CBOp \div 8) % 8) THEN 0 ELSE zeroFlag)
                     + halfCarryFlag + And(cpu.f, carryFlag)
         /\ cpu'.pc = U16(cpu.pc + 2)
         /\ \A i \in {0, 1, 2, 3, 4, 5, 7} : Reg(cpu', i) = Reg(cpu, i)
         /\ cpu'.sp = cpu.sp /\ cpu'.hram = cpu.hram /\ cpu'.ie = cpu.ie
         /\ wram' = wram /\ cart' = cart /\ bus' = bus
         /\ ppu'.vram = ppu.vram /\ ppu'.oam = ppu.oam
         /\ cpu'.dma = cpu.dma /\ cpu'.dmabank = cpu.dmabank
         /\ cpu'.div = cpu.div + DivTicks(cpu.clock, cpu'.clock)
         /\ ppu'.clock = ppu.clock + (cpu'.clock - cpu.clock)]_vars

-----------------------------------------------------------------------------
(* STAT written by the program: LD A,v; LDH ($41),A and NOPs from there    *)
(* on, through the first line and into the second.                         *)

MaxClockY == 500

StatValues == {0, 8, 64, 122, 123, 255}

InitStat ==
    \E v \in StatValues :
        InitMachine(NewMBC1Cartridge(ImageAt(Entry, <<62, v, 224, 65>>)), FALSE)

NextStat ==
    \/ CheckInterrupts(MaxClockY)
    \/ Execute

SpecStat == InitStat /\ [][NextStat]_vars

\* C40: at every instruction boundary the mode bits read from 0xFF41 are
\* those of the PPU clock (2, 3, 0 by hclock on a visible line, 1 in
\* V-blank) whatever the program has written to 0xFF41; the write sets the
\* four interrupt-select bits and leaves the mode bits as they were.
C40_StatMode ==
    /\ [](phase = "boundary" /\ ppu.clock >= 1 => StatMode(GB) = ModeAt(ppu.clock - 1))
    /\ [][last'.op = "exec" /\ last'.value = 224 /\ Read(GB, U16(cpu.pc + 1)) = 65 =>
            (Read(GB', 65345) \div 8) % 16 = (cpu.a \div 8) % 16]_vars

=============================================================================
